---- MODULE Spec2Model ----
(***************************************************************************)
(* A model of the RBAC engine (RBACEngine), its result cache               *)
(* (PermissionCache) and the manager facade (RBACManager).                 *)
(*                                                                         *)
(* Identifiers (roles, resources, permissions) are sequences of one-       *)
(* character strings, so that validateInput and the cache's sanitizeInput  *)
(* are computed character by character as the code computes them.          *)
(***************************************************************************)
EXTENDS Integers, Sequences, FiniteSets, TLC

VARIABLES
  config,         \* RBACEngine.config: [roles, defaultRole]
  roleHierarchy,  \* RBACEngine.roleHierarchy: child role -> list of parent roles
  cache,          \* RBACEngine.cache: [enabled, entries, version, maxSize, ttl]
  strict,         \* RBACEngine.strict
  now,            \* Date.now()
  last,           \* the last public call and how it ended
  hierarchyArg,   \* the mapping a caller is about to hand to setRoleHierarchy
  request,        \* the request the middleware is working on, if any
  outside,        \* a configuration object the caller holds, and whether its
                  \* roles object is the one the engine is using
  history         \* of a PermissionCache used on its own: its keys from the least
                  \* to the most recently inserted or read, and when each was written

vars == <<config, roleHierarchy, cache, strict, now, last, hierarchyArg, request, outside,
          history>>

(***************************************************************************)
(* Bounds of the model.                                                    *)
(***************************************************************************)
CacheMaxSize == 1     \* options.cache.maxSize handed to the constructor
CacheTtl == 2         \* options.cache.ttl handed to the constructor
MaxVersion == 3       \* the cache's version counter is followed up to here
MaxParents == 2       \* longest parent list of a hierarchy handed to setRoleHierarchy
MaxNow == 3           \* Date.now() is followed up to here

(***************************************************************************)
(* Values.                                                                 *)
(***************************************************************************)
Undefined == <<"undefined">>      \* a value that is not a string (null / undefined)

AB_COLON == <<"a", ":", "b">>
AB_UNDER == <<"a", "_", "b">>
AB_NEWLINE == <<"a", "\n", "b">>
ROLE_C == <<"c">>
RES_R == <<"r">>
PERM_P == <<"p">>
STAR == <<"*">>
EMPTY == <<>>
BLANK == <<" ">>
DASHES == <<"-", "-">>

RoleIds == {AB_COLON, AB_UNDER, ROLE_C}
ResIds == {RES_R}
BadIds == {EMPTY, BLANK, AB_NEWLINE, DASHES, Undefined}

IsString(v) == v # Undefined
Falsy(v) == v = Undefined \/ v = EMPTY

(***************************************************************************)
(* RBACEngine.validateInput                                                *)
(***************************************************************************)
ControlChars == {"\n", "\r", "\t"}
WhitespaceChars == {" ", "\n", "\r", "\t"}
DangerousPatterns ==
  { <<"$", "{">>, <<"$", "(">>, <<"{", "{">>, <<"}", "}">>, <<"-", "-">>,
    <<";", "'">>, <<"\"", ";">>,
    <<"<", "s", "c", "r", "i", "p", "t", ">">>,
    <<"<", "/", "s", "c", "r", "i", "p", "t", ">">> }

Contains(s, pat) ==
  \E i \in 1..Len(s) :
    /\ i + Len(pat) - 1 <= Len(s)
    /\ \A j \in 1..Len(pat) : s[i + j - 1] = pat[j]

TrimIsEmpty(s) == \A i \in 1..Len(s) : s[i] \in WhitespaceChars

\* "" when the input passes, else the message of the Error that is thrown
validateInput(input) ==
  IF ~IsString(input) THEN "must be a string"
  ELSE IF TrimIsEmpty(input) THEN "cannot be empty"
  ELSE IF (\E i \in 1..Len(input) : input[i] \in ControlChars)
          \/ (\E pat \in DangerousPatterns : Contains(input, pat))
       THEN "invalid format"
  ELSE ""

Valid(input) == validateInput(input) = ""

(***************************************************************************)
(* PermissionCache                                                         *)
(***************************************************************************)
Salt == <<"s">>                    \* secureSalt: a fixed string per instance
NoKey == <<>>                      \* createKey threw "Invalid cache key parameters"
StringOfUndefined == <<"u", "n", "d", "e", "f", "i", "n", "e", "d">>

sanitizeInput(input) ==
  IF ~IsString(input) THEN StringOfUndefined
  ELSE [i \in 1..Len(input) |->
          IF input[i] \in {":", "\n", "\r"} THEN "_" ELSE input[i]]

createKey(role, resource, permission) ==
  IF Falsy(role) \/ Falsy(resource) \/ Falsy(permission) THEN NoKey
  ELSE Salt \o <<":">> \o sanitizeInput(role) \o <<":">> \o sanitizeInput(resource)
            \o <<":">> \o sanitizeInput(permission)

\* new PermissionCache(maxSize, ttl); enabled is FALSE for an engine whose
\* cache field is null
PermissionCache(enabled, maxSize, ttl) ==
  [enabled |-> enabled, entries |-> <<>>, version |-> 1, maxSize |-> maxSize, ttl |-> ttl]

NewCache(enabled) == PermissionCache(enabled, CacheMaxSize, CacheTtl)

\* no PermissionCache is used on its own
NoHistory == [order |-> <<>>, written |-> <<>>]

IndexOfKey(entries, key) ==
  IF \E i \in 1..Len(entries) : entries[i].key = key
  THEN CHOOSE i \in 1..Len(entries) : entries[i].key = key
  ELSE 0

RemoveAt(entries, i) == SubSeq(entries, 1, i - 1) \o SubSeq(entries, i + 1, Len(entries))

\* PermissionCache.get, with the re-insertion after the delete left out
cacheGetDropping(c, role, resource, permission) ==
  LET key == createKey(role, resource, permission)
      i == IndexOfKey(c.entries, key)
      miss(c2) == [hit |-> FALSE, value |-> FALSE, cache |-> c2]
  IN IF key = NoKey THEN miss(c)
     ELSE IF i = 0 THEN miss(c)
     ELSE IF c.entries[i].expiresAt < now
          THEN miss([c EXCEPT !.entries = RemoveAt(c.entries, i)])
     ELSE IF c.entries[i].version < c.version
          THEN miss([c EXCEPT !.entries = RemoveAt(c.entries, i)])
     ELSE [hit |-> TRUE, value |-> c.entries[i].value,
           cache |-> [c EXCEPT !.entries = RemoveAt(c.entries, i)]]

\* PermissionCache.get, with a hit that renews the entry's expiration
cacheGetSliding(c, role, resource, permission) ==
  LET key == createKey(role, resource, permission)
      i == IndexOfKey(c.entries, key)
      miss(c2) == [hit |-> FALSE, value |-> FALSE, cache |-> c2]
  IN IF key = NoKey THEN miss(c)
     ELSE IF i = 0 THEN miss(c)
     ELSE IF c.entries[i].expiresAt < now
          THEN miss([c EXCEPT !.entries = RemoveAt(c.entries, i)])
     ELSE IF c.entries[i].version < c.version
          THEN miss([c EXCEPT !.entries = RemoveAt(c.entries, i)])
     ELSE [hit |-> TRUE, value |-> c.entries[i].value,
           cache |-> [c EXCEPT !.entries =
                        Append(RemoveAt(c.entries, i),
                               [c.entries[i] EXCEPT !.expiresAt = now + c.ttl])]]

\* PermissionCache.get: [hit, value, cache]; a miss is the code's undefined
cacheGet(c, role, resource, permission) ==
  LET key == createKey(role, resource, permission)
      i == IndexOfKey(c.entries, key)
      miss(c2) == [hit |-> FALSE, value |-> FALSE, cache |-> c2]
  IN IF key = NoKey THEN miss(c)
     ELSE IF i = 0 THEN miss(c)
     ELSE IF c.entries[i].expiresAt < now
          THEN miss([c EXCEPT !.entries = RemoveAt(c.entries, i)])
     ELSE IF c.entries[i].version < c.version
          THEN miss([c EXCEPT !.entries = RemoveAt(c.entries, i)])
     ELSE [hit |-> TRUE, value |-> c.entries[i].value,
           cache |-> [c EXCEPT !.entries = Append(RemoveAt(c.entries, i), c.entries[i])]]

\* PermissionCache.set
cacheSet(c, role, resource, permission, value) ==
  LET key == createKey(role, resource, permission)
      kept == IF Len(c.entries) >= c.maxSize /\ Len(c.entries) > 0
              THEN Tail(c.entries) ELSE c.entries
      i == IndexOfKey(kept, key)
      entry == [key |-> key, value |-> value, expiresAt |-> now + c.ttl,
                version |-> c.version]
  IN IF key = NoKey THEN c
     ELSE IF i = 0 THEN [c EXCEPT !.entries = Append(kept, entry)]
     ELSE [c EXCEPT !.entries = [kept EXCEPT ![i] = entry]]

\* PermissionCache.clear, with the emptying of the map left out
cacheClearKeepsEntries(c) == [c EXCEPT !.version = @ + 1]

\* PermissionCache.clear
cacheClear(c) == [c EXCEPT !.entries = <<>>, !.version = @ + 1]

\* PermissionCache.size
cacheSize(c) == Len(c.entries)

(***************************************************************************)
(* RBACEngine: configuration                                               *)
(***************************************************************************)
RoleDef(perms) == [permissions |-> perms]
Cfg(roles, defaultRole) == [roles |-> roles, defaultRole |-> defaultRole]

\* RBACEngine.validateConfig: "" or the message of the Error thrown
validateConfig(cfg) ==
  IF DOMAIN cfg.roles = {} THEN "must contain at least one role"
  ELSE IF ~Falsy(cfg.defaultRole) /\ cfg.defaultRole \notin DOMAIN cfg.roles
       THEN "default role is not defined"
  ELSE ""

\* RBACEngine.deepCloneConfig
deepCloneConfig(cfg) ==
  [roles |-> [role \in DOMAIN cfg.roles |->
                [permissions |->
                   [resource \in DOMAIN cfg.roles[role].permissions |->
                      cfg.roles[role].permissions[resource]]]],
   defaultRole |-> IF Falsy(cfg.defaultRole) THEN Undefined ELSE cfg.defaultRole]

includes(list, x) == \E i \in 1..Len(list) : list[i] = x

\* a spread that keeps every element, repeated ones too
keepDuplicates(list) == list

\* [...new Set(list)]: first occurrences, in order
RECURSIVE dedupe(_)
dedupe(list) ==
  IF list = <<>> THEN <<>>
  ELSE LET init == dedupe(SubSeq(list, 1, Len(list) - 1))
           x == list[Len(list)]
       IN IF includes(init, x) THEN init ELSE Append(init, x)

(***************************************************************************)
(* RBACEngine: hierarchy validation                                        *)
(***************************************************************************)
RECURSIVE detectCycle(_, _, _, _)
RECURSIVE detectCycleParents(_, _, _, _, _)

\* the for-loop of detectCycle over parentRoles, from index i
detectCycleParents(parentRoles, i, hierarchy, visited, stack) ==
  IF i > Len(parentRoles) THEN [found |-> FALSE, visited |-> visited, stack |-> stack]
  ELSE LET r == detectCycle(parentRoles[i], hierarchy, visited, stack)
       IN IF r.found THEN r
          ELSE detectCycleParents(parentRoles, i + 1, hierarchy, r.visited, r.stack)

\* RBACEngine.detectCycle taking a role seen before for a cycle
detectCycleSeenBefore(role, hierarchy, visited, stack) ==
  IF role \in visited THEN [found |-> TRUE, visited |-> visited, stack |-> stack]
  ELSE LET parentRoles == IF role \in DOMAIN hierarchy THEN hierarchy[role] ELSE <<>>
           r == detectCycleParents(parentRoles, 1, hierarchy,
                                   visited \cup {role}, stack \cup {role})
       IN IF r.found THEN r ELSE [r EXCEPT !.stack = @ \ {role}]

\* RBACEngine.detectCycle: [found, visited, stack]
detectCycle(role, hierarchy, visited, stack) ==
  IF role \in stack THEN [found |-> TRUE, visited |-> visited, stack |-> stack]
  ELSE IF role \in visited THEN [found |-> FALSE, visited |-> visited, stack |-> stack]
  ELSE LET parentRoles == IF role \in DOMAIN hierarchy THEN hierarchy[role] ELSE <<>>
           r == detectCycleParents(parentRoles, 1, hierarchy,
                                   visited \cup {role}, stack \cup {role})
       IN IF r.found THEN r ELSE [r EXCEPT !.stack = @ \ {role}]

\* RBACEngine.validateHierarchy looking only at each role's own parent list
validateHierarchyFirstLevel(hierarchy) ==
  \E role \in DOMAIN hierarchy : includes(hierarchy[role], role)

\* RBACEngine.validateHierarchy: TRUE when it throws the circular-reference Error
validateHierarchy(hierarchy) ==
  \E role \in DOMAIN hierarchy : detectCycle(role, hierarchy, {}, {}).found

(***************************************************************************)
(* RBACEngine: permission resolution                                       *)
(***************************************************************************)
Returned(v, c) == [threw |-> FALSE, error |-> "", value |-> v, cache |-> c]
Threw(msg, c) == [threw |-> TRUE, error |-> msg, value |-> FALSE, cache |-> c]

\* RBACEngine.checkPermission: [threw, error, value]
checkPermission(role, resource, permission) ==
  IF ~Valid(role) THEN Threw(validateInput(role), <<>>)
  ELSE IF ~Valid(resource) THEN Threw(validateInput(resource), <<>>)
  ELSE IF ~Valid(permission) THEN Threw(validateInput(permission), <<>>)
  ELSE IF role \notin DOMAIN config.roles
       THEN IF strict THEN Threw("role does not exist", <<>>) ELSE Returned(FALSE, <<>>)
  ELSE IF resource \notin DOMAIN config.roles[role].permissions THEN Returned(FALSE, <<>>)
  ELSE Returned(includes(config.roles[role].permissions[resource], permission)
                \/ includes(config.roles[role].permissions[resource], STAR), <<>>)

\* the call stack of can: recursion deeper than any acyclic hierarchy over the
\* model's roles ends in the runtime's RangeError
StackLimit == Cardinality(RoleIds \cup BadIds) + 1

RECURSIVE can(_, _, _, _, _)
RECURSIVE canParents(_, _, _, _, _, _)

\* the for-loop of can over roleHierarchy[role], from index i
canParents(parents, i, resource, permission, c, depth) ==
  IF i > Len(parents) THEN Returned(FALSE, c)
  ELSE LET r == can(parents[i], resource, permission, c, depth)
       IN IF r.threw THEN r
          ELSE IF r.value THEN r
          ELSE canParents(parents, i + 1, resource, permission, r.cache, depth)

\* RBACEngine.can, on cache c: [threw, error, value, cache]
can(role, resource, permission, c, depth) ==
  IF depth = 0 THEN Threw("Maximum call stack size exceeded", c)
  ELSE
  LET g == IF c.enabled THEN cacheGet(c, role, resource, permission)
           ELSE [hit |-> FALSE, value |-> FALSE, cache |-> c]
  IN IF g.hit THEN Returned(g.value, g.cache)
     ELSE
     LET allowed == checkPermission(role, resource, permission)
     IN IF allowed.threw THEN Threw(allowed.error, g.cache)
        ELSE
        LET inherited ==
              IF ~allowed.value /\ role \in DOMAIN roleHierarchy
              THEN canParents(roleHierarchy[role], 1, resource, permission,
                              g.cache, depth - 1)
              ELSE Returned(FALSE, g.cache)
        IN IF inherited.threw THEN inherited
           ELSE LET result == allowed.value \/ inherited.value
                IN Returned(result,
                            IF c.enabled
                            THEN cacheSet(inherited.cache, role, resource, permission, result)
                            ELSE inherited.cache)

(***************************************************************************)
(* Arguments the callers hand in.                                          *)
(***************************************************************************)
One(p) == [kind |-> "string", value |-> p]         \* a single permission
Many(list) == [kind |-> "array", value |-> list]   \* a permission array
NoArg == [kind |-> "undefined", value |-> <<>>]     \* argument left out

NoResources == <<>>                                 \* permissions: {}

\* configurations handed to the constructor and to updateConfig
ConfigInputs ==
  { Cfg((AB_COLON :> RoleDef(RES_R :> <<PERM_P>>))
          @@ (AB_UNDER :> RoleDef(RES_R :> <<>>))
          @@ (ROLE_C :> RoleDef(NoResources)), Undefined),
    Cfg((ROLE_C :> RoleDef(RES_R :> <<STAR>>)), ROLE_C),
    Cfg(<<>>, Undefined),
    Cfg((ROLE_C :> RoleDef(RES_R :> <<>>)), AB_UNDER) }

\* hierarchies handed to setRoleHierarchy
HierarchyInputs ==
  { <<>>,
    (ROLE_C :> <<AB_COLON>>) @@ (AB_COLON :> <<AB_UNDER>>),
    (AB_UNDER :> <<ROLE_C, AB_COLON>>),
    (AB_COLON :> <<AB_COLON>>),
    (ROLE_C :> <<AB_UNDER>>) @@ (AB_UNDER :> <<ROLE_C>>) }

\* the (role, resource, permission) triples handed to can
Queries ==
  (RoleIds \X ResIds \X {PERM_P})
    \cup { <<AB_NEWLINE, RES_R, PERM_P>>, <<EMPTY, RES_R, PERM_P>>,
           <<ROLE_C, Undefined, PERM_P>>, <<ROLE_C, RES_R, DASHES>> }

RoleArgs == RoleIds \cup {EMPTY}
GrantArgs == {One(PERM_P), Many(<<>>)}
RevokeArgs == {One(PERM_P), NoArg}
DefinitionInputs == {RoleDef(NoResources)}

(***************************************************************************)
(* RBACEngine: the state-changing methods, as functions of the state       *)
(***************************************************************************)
\* RBACEngine.updateConfig: [threw, config, cache]
engineUpdateConfig(cfg, c) ==
  LET cloned == deepCloneConfig(cfg)
  IN IF validateConfig(cloned) # ""
     THEN [threw |-> TRUE, config |-> cloned, cache |-> c]
     ELSE [threw |-> FALSE, config |-> cloned,
           cache |-> IF c.enabled THEN cacheClear(c) ELSE c]

\* RBACEngine.clearCache
engineClearCache(c) == IF c.enabled THEN cacheClear(c) ELSE c

Outcome(op, out) == [op |-> op, out |-> out]

\* the call threw before it changed anything
Rejected(op) ==
  /\ last' = Outcome(op, "throw")
  /\ UNCHANGED <<config, roleHierarchy, cache, strict, now, hierarchyArg, request, outside, history>>

\* the call returned early without changing anything
ReturnedEarly(op) ==
  /\ last' = Outcome(op, "ok")
  /\ UNCHANGED <<config, roleHierarchy, cache, strict, now, hierarchyArg, request, outside, history>>

\* the caller holds no configuration object
NoOutside == [kind |-> "none", shared |-> FALSE, roles |-> <<>>, defaultRole |-> Undefined]

\* the caller's object once the engine has assigned itself a fresh clone:
\* left is what the roles object it refers to holds by then
Detached(left) ==
  IF outside.shared THEN [outside EXCEPT !.shared = FALSE, !.roles = left] ELSE outside

\* the call reached engine.updateConfig(cfg); clearAfter: it then calls
\* clearCache; left: the content of the roles object the engine was using
WroteLeaving(op, cfg, clearAfter, left) ==
  LET u == engineUpdateConfig(cfg, cache)
  IN /\ config' = u.config
     /\ cache' = IF ~u.threw /\ clearAfter THEN engineClearCache(u.cache) ELSE u.cache
     /\ cache'.version <= MaxVersion
     /\ last' = Outcome(op, IF u.threw THEN "throw" ELSE "ok")
     /\ outside' = Detached(left)
     /\ UNCHANGED <<roleHierarchy, strict, now, hierarchyArg, request, history>>

\* ... with a configuration built beside the roles object the engine was using
Wrote(op, cfg, clearAfter) == WroteLeaving(op, cfg, clearAfter, config.roles)

\* ... after the caller assigned into the roles object that getConfig handed
\* out, which is the one the engine was using
WroteInPlace(op, cfg, clearAfter) == WroteLeaving(op, cfg, clearAfter, cfg.roles)

\* no request has been handed to a middleware yet
NoRequest == [pc |-> "idle"]

(***************************************************************************)
(* The public calls (RBACManager).                                         *)
(***************************************************************************)
\* RBACManager.can
Can(role, resource, permission) ==
  LET r == can(role, resource, permission, cache, StackLimit)
  IN /\ cache' = r.cache
     /\ last' = Outcome("can", IF r.threw THEN "throw"
                                ELSE IF r.value THEN "true" ELSE "false")
     /\ UNCHANGED <<config, roleHierarchy, strict, now, hierarchyArg, request, outside, history>>

\* RBACManager.setRoleHierarchy without the validation
SetRoleHierarchyUnchecked(hierarchy) ==
  /\ roleHierarchy' = hierarchy
  /\ cache' = IF cache.enabled THEN cacheClear(cache) ELSE cache
  /\ cache'.version <= MaxVersion
  /\ last' = Outcome("setRoleHierarchy", "ok")
  /\ UNCHANGED <<config, strict, now, hierarchyArg, request, outside, history>>

\* RBACManager.setRoleHierarchy
SetRoleHierarchy(hierarchy) ==
  IF validateHierarchy(hierarchy)
  THEN Rejected("setRoleHierarchy")
  ELSE /\ roleHierarchy' = hierarchy
       /\ cache' = IF cache.enabled THEN cacheClear(cache) ELSE cache
       /\ cache'.version <= MaxVersion
       /\ last' = Outcome("setRoleHierarchy", "ok")
       /\ UNCHANGED <<config, strict, now, hierarchyArg, request, outside, history>>

\* RBACManager.updateConfig
UpdateConfig(cfg) == Wrote("updateConfig", cfg, TRUE)

\* RBACManager.addRole
AddRole(role, definition) ==
  IF Falsy(role) \/ ~IsString(role)
  THEN Rejected("addRole")
  ELSE IF \E resource \in DOMAIN definition.permissions :
            \E i \in 1..Len(definition.permissions[resource]) :
               Falsy(definition.permissions[resource][i])
       THEN Rejected("addRole")
  ELSE Wrote("addRole",
             [config EXCEPT !.roles =
                [r \in DOMAIN config.roles \cup {role} |->
                   IF r = role THEN RoleDef(definition.permissions)
                   ELSE config.roles[r]]],
             FALSE)

\* a removeRole that leaves the default role as it is
RemoveRoleKeepingDefault(role) ==
  IF role \notin DOMAIN config.roles
  THEN ReturnedEarly("removeRole")
  ELSE Wrote("removeRole",
             [roles |-> [r \in DOMAIN config.roles \ {role} |-> config.roles[r]],
              defaultRole |-> config.defaultRole],
             FALSE)

\* RBACManager.removeRole
RemoveRole(role) ==
  IF Falsy(role) \/ ~IsString(role)
  THEN Rejected("removeRole")
  ELSE IF role \notin DOMAIN config.roles
       THEN ReturnedEarly("removeRole")
  ELSE Wrote("removeRole",
             [roles |-> [r \in DOMAIN config.roles \ {role} |-> config.roles[r]],
              defaultRole |-> IF config.defaultRole = role THEN Undefined
                              ELSE config.defaultRole],
             FALSE)

\* the permission list a grant or revoke argument stands for
PermissionList(permission) ==
  IF permission.kind = "array" THEN permission.value ELSE <<permission.value>>

\* config with the permission list of (role, resource) replaced
WithPermissions(role, resource, list) ==
  [config EXCEPT !.roles[role].permissions =
     [res \in DOMAIN config.roles[role].permissions \cup {resource} |->
        IF res = resource THEN list ELSE config.roles[role].permissions[res]]]

\* a grant that stores the new permissions in place of the current ones
GrantReplacing(role, resource, permission) ==
  IF role \notin DOMAIN config.roles \/ permission.kind = "undefined"
  THEN Rejected("grant")
  ELSE WroteInPlace("grant", WithPermissions(role, resource, PermissionList(permission)),
                    FALSE)

\* a grant that stores the valid elements of the list before it throws for an
\* invalid one
GrantPartial(role, resource, permission) ==
  IF role \in DOMAIN config.roles /\ permission.kind = "array"
  THEN /\ config' = WithPermissions(role, resource,
                       SelectSeq(permission.value, LAMBDA p : ~Falsy(p)))
       /\ last' = Outcome("grant", "throw")
       /\ UNCHANGED <<roleHierarchy, cache, strict, now, hierarchyArg, request, outside, history>>
  ELSE Rejected("grant")

\* RBACManager.grant
Grant(role, resource, permission) ==
  IF Falsy(role) \/ ~IsString(role) \/ Falsy(resource) \/ ~IsString(resource)
  THEN Rejected("grant")
  ELSE IF permission.kind = "undefined" \/ permission.value = <<>>
       THEN Rejected("grant")
  ELSE IF role \notin DOMAIN config.roles
       THEN Rejected("grant")
  ELSE IF \E i \in 1..Len(PermissionList(permission)) :
             Falsy(PermissionList(permission)[i])
       THEN Rejected("grant")
  ELSE LET current == IF resource \in DOMAIN config.roles[role].permissions
                      THEN config.roles[role].permissions[resource] ELSE <<>>
       IN WroteInPlace("grant",
                WithPermissions(role, resource,
                                dedupe(current \o PermissionList(permission))),
                FALSE)

\* a revoke that empties the list whatever permissions it was handed
RevokeEverything(role, resource, permission) ==
  IF role \in DOMAIN config.roles /\ resource \in DOMAIN config.roles[role].permissions
  THEN WroteInPlace("revoke", WithPermissions(role, resource, <<>>), TRUE)
  ELSE ReturnedEarly("revoke")

\* RBACManager.revoke
Revoke(role, resource, permission) ==
  IF Falsy(role) \/ ~IsString(role) \/ Falsy(resource) \/ ~IsString(resource)
  THEN Rejected("revoke")
  ELSE IF role \notin DOMAIN config.roles
       THEN ReturnedEarly("revoke")
  ELSE IF resource \notin DOMAIN config.roles[role].permissions
       THEN ReturnedEarly("revoke")
  ELSE IF permission.kind = "undefined"
          \/ (permission.kind = "string" /\ permission.value = EMPTY)
       THEN WroteInPlace("revoke", WithPermissions(role, resource, <<>>), TRUE)
  ELSE IF \E i \in 1..Len(PermissionList(permission)) :
             Falsy(PermissionList(permission)[i])
       THEN Rejected("revoke")
  ELSE WroteInPlace("revoke",
             WithPermissions(role, resource,
               SelectSeq(config.roles[role].permissions[resource],
                         LAMBDA p : ~includes(PermissionList(permission), p))),
             TRUE)

\* RBACManager.clearCache
ClearCache ==
  /\ cache' = engineClearCache(cache)
  /\ cache'.version <= MaxVersion
  /\ last' = Outcome("clearCache", "ok")
  /\ UNCHANGED <<config, roleHierarchy, strict, now, hierarchyArg, request, outside, history>>

(***************************************************************************)
(* The engine after construction, and its calls.                           *)
(***************************************************************************)
Init ==
  /\ config \in {cfg \in ConfigInputs : validateConfig(cfg) = ""}
  /\ roleHierarchy = <<>>
  /\ cache \in {NewCache(TRUE), NewCache(FALSE)}
  /\ strict \in BOOLEAN
  /\ now = 0
  /\ last = Outcome("constructor", "ok")
  /\ hierarchyArg = <<>>
  /\ request = NoRequest
  /\ outside = NoOutside
  /\ history = NoHistory

Next ==
  \/ \E q \in Queries : Can(q[1], q[2], q[3])
  \/ \E hierarchy \in HierarchyInputs : SetRoleHierarchy(hierarchy)
  \/ \E cfg \in ConfigInputs : UpdateConfig(cfg)
  \/ \E role \in RoleArgs, definition \in DefinitionInputs : AddRole(role, definition)
  \/ \E role \in RoleArgs : RemoveRole(role)
  \/ \E role \in RoleArgs, resource \in ResIds, permission \in GrantArgs :
       Grant(role, resource, permission)
  \/ \E role \in RoleArgs, resource \in ResIds, permission \in RevokeArgs :
       Revoke(role, resource, permission)
  \/ ClearCache

Spec == Init /\ [][Next]_vars

(***************************************************************************)
(* setRoleHierarchy on every mapping over the roles with parent lists of   *)
(* at most MaxParents distinct roles: the caller's mapping is drawn at     *)
(* the start, a sample hierarchy may be installed and the cache filled     *)
(* before the mapping is handed in.                                        *)
(***************************************************************************)
ParentLists ==
  UNION { {l \in [1..n -> RoleIds] : \A i, j \in 1..n : i # j => l[i] # l[j]}
          : n \in 0..MaxParents }

AllHierarchies ==
  UNION { [keys -> ParentLists] : keys \in SUBSET RoleIds }

\* a role with two parents that share a parent, which is neither a key of the
\* mapping nor a role of the configuration
Diamond ==
  (ROLE_C :> <<AB_COLON, AB_UNDER>>) @@ (AB_COLON :> <<AB_NEWLINE>>)
    @@ (AB_UNDER :> <<AB_NEWLINE>>)

InitHierarchy ==
  /\ config = Cfg((AB_COLON :> RoleDef(RES_R :> <<PERM_P>>))
                    @@ (AB_UNDER :> RoleDef(RES_R :> <<>>))
                    @@ (ROLE_C :> RoleDef(NoResources)), Undefined)
  /\ roleHierarchy = <<>>
  /\ cache = NewCache(TRUE)
  /\ strict = FALSE
  /\ now = 0
  /\ last = Outcome("constructor", "ok")
  /\ hierarchyArg \in AllHierarchies \cup {Diamond}
  /\ request = NoRequest
  /\ outside = NoOutside
  /\ history = NoHistory

NextHierarchy ==
  \/ SetRoleHierarchy(hierarchyArg)
  \/ SetRoleHierarchy((ROLE_C :> <<AB_COLON>>) @@ (AB_COLON :> <<AB_UNDER>>))
  \/ Can(ROLE_C, RES_R, PERM_P)

SpecHierarchy == InitHierarchy /\ [][NextHierarchy]_vars

(***************************************************************************)
(* What the properties below speak about.                                  *)
(***************************************************************************)
ValidQueries == {t \in Queries : Valid(t[1]) /\ Valid(t[2]) /\ Valid(t[3])}

\* What a can call made in the current state would produce.
CanNow(t) == can(t[1], t[2], t[3], cache, StackLimit)

\* What the engine computes for the triple without consulting any cache.
CanUncached(t) == can(t[1], t[2], t[3], NewCache(FALSE), StackLimit)

ReturnedTrue(r) == ~r.threw /\ r.value
ReturnedFalse(r) == ~r.threw /\ ~r.value

\* The permission is an element of the list configured for the role on the
\* resource.
Listed(role, resource, permission) ==
  /\ role \in DOMAIN config.roles
  /\ resource \in DOMAIN config.roles[role].permissions
  /\ includes(config.roles[role].permissions[resource], permission)

\* The role passes the direct check, by the permission itself or by "*".
DirectlyHolds(role, resource, permission) ==
  Listed(role, resource, permission) \/ Listed(role, resource, STAR)

Parents(hierarchy, role) ==
  IF role \in DOMAIN hierarchy
  THEN {hierarchy[role][i] : i \in 1..Len(hierarchy[role])}
  ELSE {}

RECURSIVE Closure(_, _)
Closure(hierarchy, roles) ==
  LET more == roles \cup UNION {Parents(hierarchy, role) : role \in roles}
  IN IF more = roles THEN roles ELSE Closure(hierarchy, more)

\* Some role reaches itself by following parent links.
HasCycle(hierarchy) ==
  \E role \in DOMAIN hierarchy :
    role \in Closure(hierarchy, Parents(hierarchy, role))

\* No other valid triple is sanitised to the cache key of this one.
KeyUnshared(t) ==
  \A u \in ValidQueries : u # t => createKey(u[1], u[2], u[3]) # createKey(t[1], t[2], t[3])

ConfigWriters == {"updateConfig", "addRole", "removeRole", "grant", "revoke"}
Mutators == ConfigWriters \cup {"setRoleHierarchy"}

(***************************************************************************)
(* C1: for a role with no hierarchy entry, and valid role, resource and    *)
(* permission, can returns true exactly when the permission is an element  *)
(* of the list configured for that role and resource; a "*" in the list    *)
(* counts only for the permission "*".                                     *)
(***************************************************************************)
C1_CanIsListMembership ==
  \A t \in ValidQueries :
    t[1] \notin DOMAIN roleHierarchy =>
      (ReturnedTrue(CanNow(t)) <=> Listed(t[1], t[2], t[3]))

(***************************************************************************)
(* C2: with strict mode off, can(role, resource, permission) is true       *)
(* exactly when the role or some role reachable from it through the        *)
(* hierarchy passes the direct check.                                      *)
(***************************************************************************)
C2_CanIsDisjunctionOverAncestors ==
  ~strict =>
    \A t \in ValidQueries :
      ReturnedTrue(CanNow(t)) <=>
        \E a \in Closure(roleHierarchy, {t[1]}) : DirectlyHolds(a, t[2], t[3])

(***************************************************************************)
(* C3: in every reachable state, also after a call that ended by throwing, *)
(* a live cache entry for a triple holds what the engine computes for      *)
(* that triple from the current configuration and hierarchy without the    *)
(* cache. Stated for the triples whose cache key no other triple shares.   *)
(***************************************************************************)
C3_LiveEntriesAreCurrent ==
  \A t \in ValidQueries :
    (cache.enabled /\ KeyUnshared(t) /\ cacheGet(cache, t[1], t[2], t[3]).hit) =>
      /\ ~CanUncached(t).threw
      /\ CanUncached(t).value = cacheGet(cache, t[1], t[2], t[3]).value

(***************************************************************************)
(* C4: when the cache is enabled and grant, revoke, updateConfig, addRole, *)
(* removeRole or setRoleHierarchy returns without throwing, the cache      *)
(* holds no entry. As stated, for every such return.                       *)
(***************************************************************************)
C4_EmptyAfterEveryMutatorReturn ==
  (cache.enabled /\ last.op \in Mutators /\ last.out = "ok") => cacheSize(cache) = 0

ReturnedOk == last'.out = "ok"

(***************************************************************************)
(* C4, amended: the cache holds no entry after grant, updateConfig,        *)
(* addRole or setRoleHierarchy returns, after removeRole returns for a     *)
(* role that was configured, and after revoke returns for a role that was  *)
(* configured with an entry for the resource.                              *)
(***************************************************************************)
C4_EmptyAfterMutatorThatWrote ==
  [][ (cache'.enabled /\ ReturnedOk) =>
        /\ last'.op \in {"grant", "updateConfig", "addRole", "setRoleHierarchy"} =>
             cacheSize(cache') = 0
        /\ last'.op = "removeRole" =>
             \A role \in RoleArgs :
               (role \in DOMAIN config.roles /\ RemoveRole(role)) => cacheSize(cache') = 0
        /\ last'.op = "revoke" =>
             \A role \in RoleArgs, resource \in ResIds, permission \in RevokeArgs :
               ( /\ role \in DOMAIN config.roles
                 /\ resource \in DOMAIN config.roles[role].permissions
                 /\ Revoke(role, resource, permission) ) => cacheSize(cache') = 0
    ]_vars

\* A grant has returned on an enabled cache that was cleared and is empty.
C4_GrantReturnedOnEnabledCache ==
  /\ last = Outcome("grant", "ok")
  /\ cache.enabled
  /\ cache.version > 1
  /\ cacheSize(cache) = 0

(***************************************************************************)
(* C5: when updateConfig, called directly or through addRole, removeRole,  *)
(* grant or revoke, throws, the engine's configuration is exactly what it  *)
(* was before the call.                                                    *)
(***************************************************************************)
C5_ThrowLeavesConfig ==
  [][(last'.op \in ConfigWriters /\ last'.out = "throw") => config' = config]_vars

(***************************************************************************)
(* C6: setRoleHierarchy throws for every mapping in which some role        *)
(* reaches itself through parent links, and then the stored hierarchy and  *)
(* the cache contents are what they were before the call.                  *)
(***************************************************************************)
C6_CyclicHierarchyRejected ==
  [][(SetRoleHierarchy(hierarchyArg) /\ HasCycle(hierarchyArg)) =>
       /\ last'.out = "throw"
       /\ roleHierarchy' = roleHierarchy
       /\ cache' = cache]_vars

\* A mapping whose cycle passes through more than one role has been
\* rejected while a hierarchy was installed and the cache held an entry.
C6_LongCycleRejected ==
  /\ last = Outcome("setRoleHierarchy", "throw")
  /\ HasCycle(hierarchyArg)
  /\ \A role \in DOMAIN hierarchyArg : ~includes(hierarchyArg[role], role)
  /\ roleHierarchy # <<>>
  /\ cacheSize(cache) > 0

(***************************************************************************)
(* C7: two distinct triples never share a cache slot: a result that can    *)
(* caches for one triple is never what the cache returns for a different   *)
(* triple. Stated for a can on a role with no hierarchy entry, which       *)
(* stores one result: it gives no other triple a hit it did not have.      *)
(***************************************************************************)
C7_StoreGivesNoOtherTripleAHit ==
  [][\A t \in ValidQueries :
       (cache.enabled /\ t[1] \notin DOMAIN roleHierarchy /\ Can(t[1], t[2], t[3])) =>
         \A u \in ValidQueries \ {t} :
           cacheGet(cache', u[1], u[2], u[3]).hit => cacheGet(cache, u[1], u[2], u[3]).hit
    ]_vars

(***************************************************************************)
(* C8: for a role, resource or permission that validation rejects, can     *)
(* never returns a boolean, whatever the cache holds.                      *)
(***************************************************************************)
C8_InvalidInputNeverAnswered ==
  \A t \in Queries \ ValidQueries : CanNow(t).threw

(***************************************************************************)
(* C9: for a role that is not in the configuration, can returns false when *)
(* strict mode is off and throws when it is on, in every reachable state,  *)
(* and the throw leaves no cache entry for the triple. Stated for the      *)
(* roles that have no hierarchy entry either.                              *)
(***************************************************************************)
C9_UnknownRoleDeniedOrThrown ==
  \A t \in ValidQueries :
    (t[1] \notin DOMAIN config.roles /\ t[1] \notin DOMAIN roleHierarchy) =>
      IF strict
      THEN /\ CanNow(t).threw
           /\ ~cacheGet(CanNow(t).cache, t[1], t[2], t[3]).hit
      ELSE ReturnedFalse(CanNow(t))

\* Every parent named in the hierarchy is a configured role.
AllParentsConfigured ==
  \A role \in DOMAIN roleHierarchy : Parents(roleHierarchy, role) \subseteq DOMAIN config.roles

(***************************************************************************)
(* C10: for a configured role and a resource or permission that no role    *)
(* holds, can never throws and returns false, with strict mode on or off.  *)
(* Stated for the hierarchies whose parents are all configured roles.      *)
(***************************************************************************)
C10_UngrantedIsRoutineDeny ==
  \A t \in ValidQueries :
    ( /\ t[1] \in DOMAIN config.roles
      /\ AllParentsConfigured
      /\ \A role \in DOMAIN config.roles : ~DirectlyHolds(role, t[2], t[3]) ) =>
      ReturnedFalse(CanNow(t))

(***************************************************************************)
(* RBACEngine: the other queries.                                          *)
(***************************************************************************)
\* Object.keys of a mapping, as a list (the order of insertion is not kept)
RECURSIVE keysOf(_)
keysOf(keys) ==
  IF keys = {} THEN <<>>
  ELSE LET k == CHOOSE k \in keys : TRUE IN <<k>> \o keysOf(keys \ {k})

RECURSIVE getPermissions(_, _, _)
RECURSIVE getPermissionsParents(_, _, _, _)

\* the for-loop of getPermissions, ended after the first parent
getPermissionsFirstParent(parents, i, resource, depth) ==
  IF i > Len(parents) \/ i > 1 THEN Returned(<<>>, <<>>)
  ELSE getPermissions(parents[i], resource, depth)

\* the for-loop of getPermissions over roleHierarchy[role], from index i
getPermissionsParents(parents, i, resource, depth) ==
  IF i > Len(parents) THEN Returned(<<>>, <<>>)
  ELSE LET r == getPermissions(parents[i], resource, depth)
       IN IF r.threw THEN r
          ELSE LET rest == getPermissionsParents(parents, i + 1, resource, depth)
               IN IF rest.threw THEN rest ELSE Returned(r.value \o rest.value, <<>>)

\* RBACEngine.getPermissions: [threw, error, value]
getPermissions(role, resource, depth) ==
  IF depth = 0 THEN Threw("Maximum call stack size exceeded", <<>>)
  ELSE IF role \notin DOMAIN config.roles
       THEN IF strict THEN Threw("role does not exist", <<>>) ELSE Returned(<<>>, <<>>)
  ELSE LET directPermissions ==
             IF resource \in DOMAIN config.roles[role].permissions
             THEN config.roles[role].permissions[resource] ELSE <<>>
           inherited ==
             IF role \in DOMAIN roleHierarchy
             THEN getPermissionsParents(roleHierarchy[role], 1, resource, depth - 1)
             ELSE Returned(<<>>, <<>>)
       IN IF inherited.threw THEN inherited
          ELSE Returned(dedupe(directPermissions \o inherited.value), <<>>)

RECURSIVE getResources(_, _)
RECURSIVE getResourcesParents(_, _, _)

\* the for-loop of getResources over roleHierarchy[role], from index i
getResourcesParents(parents, i, depth) ==
  IF i > Len(parents) THEN Returned(<<>>, <<>>)
  ELSE LET r == getResources(parents[i], depth)
       IN IF r.threw THEN r
          ELSE LET rest == getResourcesParents(parents, i + 1, depth)
               IN IF rest.threw THEN rest ELSE Returned(r.value \o rest.value, <<>>)

\* RBACEngine.getResources: [threw, error, value]
getResources(role, depth) ==
  IF depth = 0 THEN Threw("Maximum call stack size exceeded", <<>>)
  ELSE IF role \notin DOMAIN config.roles
       THEN IF strict THEN Threw("role does not exist", <<>>) ELSE Returned(<<>>, <<>>)
  ELSE LET directResources == keysOf(DOMAIN config.roles[role].permissions)
           inherited ==
             IF role \in DOMAIN roleHierarchy
             THEN getResourcesParents(roleHierarchy[role], 1, depth - 1)
             ELSE Returned(<<>>, <<>>)
       IN IF inherited.threw THEN inherited
          ELSE Returned(dedupe(directResources \o inherited.value), <<>>)

\* the second for-loop of userCan, from index i
RECURSIVE userCanRoles(_, _, _, _, _)
userCanRoles(userRoles, i, resource, permission, c) ==
  IF i > Len(userRoles) THEN Returned(FALSE, c)
  ELSE LET r == can(userRoles[i], resource, permission, c, StackLimit)
       IN IF r.threw THEN r
          ELSE IF r.value THEN r
          ELSE userCanRoles(userRoles, i + 1, resource, permission, r.cache)

\* the message of the first input of the list that validateInput rejects, or ""
RECURSIVE firstError(_, _)
firstError(inputs, i) ==
  IF i > Len(inputs) THEN ""
  ELSE LET message == validateInput(inputs[i])
       IN IF message # "" THEN message ELSE firstError(inputs, i + 1)

\* RBACEngine.userCan with its catch left out: what the try block does
userCanTry(userRoles, resource, permission, c) ==
  LET message == firstError(<<resource, permission>>
                            \o (IF userRoles.kind = "undefined" THEN <<>>
                                ELSE userRoles.value), 1)
      roles == IF userRoles.kind = "undefined" \/ Len(userRoles.value) = 0
               THEN IF Falsy(config.defaultRole) THEN <<>> ELSE <<config.defaultRole>>
               ELSE userRoles.value
  IN IF message # "" THEN Threw(message, c)
     ELSE userCanRoles(roles, 1, resource, permission, c)

\* RBACEngine.userCan: [threw, error, value, cache]
\* a catch block that lets the exception through
userCanRethrow(r) == r

userCanCatch(r) == IF r.threw THEN Returned(FALSE, r.cache) ELSE r

userCan(userRoles, resource, permission, c) ==
  userCanCatch(userCanTry(userRoles, resource, permission, c))

\* a user handed to RBACManager.userCan: null, a role array, or an object
NoUser == [kind |-> "undefined", value |-> NoArg]
RolesOf(list) == [kind |-> "array", value |-> Many(list)]
UserWith(roles) == [kind |-> "object", value |-> roles]

\* RBACManager.userCan
managerUserCan(user, resource, permission, c) ==
  IF user.kind = "undefined" THEN Returned(FALSE, c)
  ELSE userCan(user.value, resource, permission, c)

\* a policy handed to evaluatePolicy: none, or an object with three fields
NoPolicy == [kind |-> "undefined", role |-> Undefined, resource |-> Undefined,
             permission |-> Undefined]
PolicyOf(role, resource, permission) ==
  [kind |-> "object", role |-> role, resource |-> resource, permission |-> permission]

PolicyResult(allowed, reason, c) ==
  [threw |-> FALSE, allowed |-> allowed, reason |-> reason, cache |-> c]

\* the result evaluatePolicy builds from what can() did
policyAnswer(r) ==
  IF r.threw
  THEN [threw |-> TRUE, allowed |-> FALSE, reason |-> r.error, cache |-> r.cache]
  ELSE PolicyResult(r.value,
                    IF r.value THEN "Role has permission on resource"
                    ELSE "Role does not have permission on resource",
                    r.cache)

\* RBACEngine.evaluatePolicy with its outer catch left out
evaluatePolicyTry(policy, c) ==
  IF policy.kind = "undefined" THEN PolicyResult(FALSE, "Invalid policy object", c)
  ELSE IF Falsy(policy.role) \/ Falsy(policy.resource) \/ Falsy(policy.permission)
       THEN PolicyResult(FALSE, "Policy must include role, resource, and permission", c)
  ELSE LET message == firstError(<<policy.role, policy.resource, policy.permission>>, 1)
       IN IF message # "" THEN PolicyResult(FALSE, message, c)
          ELSE policyAnswer(can(policy.role, policy.resource, policy.permission, c,
                                StackLimit))

\* RBACEngine.evaluatePolicy: [threw, allowed, reason, cache]
\* an outer catch block that lets the exception through
evaluatePolicyRethrow(r) == r

evaluatePolicyCatch(r) ==
  IF r.threw THEN PolicyResult(FALSE, "Policy evaluation error", r.cache) ELSE r

evaluatePolicy(policy, c) == evaluatePolicyCatch(evaluatePolicyTry(policy, c))

(***************************************************************************)
(* The query calls of the manager, and a specification of them together    *)
(* with the writes that change what they answer.                           *)
(***************************************************************************)
Called(op, arg, out) == [op |-> op, arg |-> arg, out |-> out]

UserInputs ==
  { NoUser, UserWith(NoArg), RolesOf(<<>>),
    RolesOf(<<ROLE_C>>), RolesOf(<<AB_UNDER, AB_COLON>>),
    RolesOf(<<AB_COLON, BLANK>>), RolesOf(<<AB_NEWLINE>>) }

PolicyInputs ==
  { NoPolicy,
    PolicyOf(ROLE_C, RES_R, PERM_P), PolicyOf(AB_COLON, RES_R, PERM_P),
    PolicyOf(ROLE_C, Undefined, PERM_P), PolicyOf(ROLE_C, BLANK, PERM_P),
    PolicyOf(AB_NEWLINE, RES_R, PERM_P), PolicyOf(ROLE_C, RES_R, DASHES) }

\* RBACManager.userCan
UserCan(user, resource, permission) ==
  \E r \in {managerUserCan(user, resource, permission, cache)} :
     /\ cache' = r.cache
     /\ last' = Called("userCan", <<user, resource, permission>>,
                       IF r.threw THEN "throw" ELSE IF r.value THEN "true" ELSE "false")
     /\ UNCHANGED <<config, roleHierarchy, strict, now, hierarchyArg, request, outside, history>>

\* RBACManager.evaluatePolicy
EvaluatePolicy(policy) ==
  \E r \in {evaluatePolicy(policy, cache)} :
     /\ cache' = r.cache
     /\ last' = Called("evaluatePolicy", policy, IF r.threw THEN "throw" ELSE r.reason)
     /\ UNCHANGED <<config, roleHierarchy, strict, now, hierarchyArg, request, outside, history>>

\* RBACManager.getPermissions
GetPermissions(role, resource) ==
  /\ last' = Called("getPermissions", <<role, resource>>,
                    IF getPermissions(role, resource, StackLimit).threw THEN "throw" ELSE "ok")
  /\ UNCHANGED <<config, roleHierarchy, cache, strict, now, hierarchyArg, request, outside, history>>

\* RBACManager.getResources
GetResources(role) ==
  /\ last' = Called("getResources", role,
                    IF getResources(role, StackLimit).threw THEN "throw" ELSE "ok")
  /\ UNCHANGED <<config, roleHierarchy, cache, strict, now, hierarchyArg, request, outside, history>>

NextQuery ==
  \/ \E q \in Queries : Can(q[1], q[2], q[3])
  \/ \E user \in UserInputs, resource \in {RES_R, BLANK} : UserCan(user, resource, PERM_P)
  \/ \E policy \in PolicyInputs : EvaluatePolicy(policy)
  \/ \E role \in RoleIds : GetPermissions(role, RES_R)
  \/ \E role \in RoleIds : GetResources(role)
  \/ \E hierarchy \in HierarchyInputs : SetRoleHierarchy(hierarchy)
  \/ \E cfg \in ConfigInputs : UpdateConfig(cfg)
  \/ \E role \in RoleIds : RemoveRole(role)

SpecQuery == Init /\ [][NextQuery]_vars

\* The configured roles whose parent list names a role that is not configured.
HasDanglingParent(role) ==
  /\ role \in DOMAIN config.roles
  /\ \E parent \in Parents(roleHierarchy, role) : parent \notin DOMAIN config.roles

ListSet(list) == {list[i] : i \in 1..Len(list)}

(***************************************************************************)
(* C11: for a configured role one of whose hierarchy parents is not        *)
(* configured, can, getPermissions and getResources do not throw, and      *)
(* getPermissions still lists the role's direct permissions.               *)
(***************************************************************************)
C11_DanglingParentTolerated ==
  \A role \in RoleIds :
    HasDanglingParent(role) =>
      /\ ~CanUncached(<<role, RES_R, PERM_P>>).threw
      /\ ~getResources(role, StackLimit).threw
      /\ ~getPermissions(role, RES_R, StackLimit).threw
      /\ \A permission \in {PERM_P, STAR} :
           Listed(role, RES_R, permission) =>
             permission \in ListSet(getPermissions(role, RES_R, StackLimit).value)

\* What a userCan call made in the current state would produce.
UserCanNow(user) == managerUserCan(user, RES_R, PERM_P, cache)

NonEmptyRoleLists == {user \in UserInputs : user.kind = "array" /\ Len(user.value.value) > 0}

(***************************************************************************)
(* C12: for a non-empty role list, userCan returns true exactly when can   *)
(* is true for at least one role of the list, whatever the other roles of  *)
(* the list are.                                                           *)
(***************************************************************************)
C12_UserCanIsDisjunctionOverRoles ==
  \A user \in NonEmptyRoleLists :
    ReturnedTrue(UserCanNow(user)) <=>
      \E role \in ListSet(user.value.value) : ReturnedTrue(CanNow(<<role, RES_R, PERM_P>>))

NoRoles(user) ==
  user.kind # "undefined" /\ (user.value.kind = "undefined" \/ Len(user.value.value) = 0)

(***************************************************************************)
(* C13: userCan never throws. It returns false for a null or undefined     *)
(* user, and for an empty role list when no default role is configured;    *)
(* for an empty role list with a default role it returns what can returns  *)
(* for the default role; and it returns false whenever its check raised    *)
(* an exception.                                                           *)
(***************************************************************************)
C13_UserCanNeverThrows ==
  \A user \in UserInputs, resource \in {RES_R, BLANK} :
    LET r == managerUserCan(user, resource, PERM_P, cache)
        d == can(config.defaultRole, resource, PERM_P, cache, StackLimit)
    IN /\ ~r.threw
       /\ user = NoUser => ~r.value
       /\ (NoRoles(user) /\ Falsy(config.defaultRole)) => ~r.value
       /\ (NoRoles(user) /\ ~Falsy(config.defaultRole)) => (r.value <=> ReturnedTrue(d))
       /\ (user.kind # "undefined"
             /\ userCanTry(user.value, resource, PERM_P, cache).threw) => ~r.value

\* userCan has returned false for a role list one of whose roles made the
\* validation throw
C13_ExceptionBecameFalse ==
  /\ last.op = "userCan"
  /\ last.out = "false"
  /\ last.arg[1].kind = "array"
  /\ firstError(last.arg[1].value.value, 1) # ""

\* The policy is an object whose three fields all pass validateInput.
WellFormed(policy) ==
  /\ policy.kind = "object"
  /\ Valid(policy.role) /\ Valid(policy.resource) /\ Valid(policy.permission)

(***************************************************************************)
(* C16: evaluatePolicy never throws. It returns allowed = false for a      *)
(* missing or incomplete policy, for a field that validateInput rejects,   *)
(* and when can throws; when can returns, allowed is the boolean that can  *)
(* returned.                                                               *)
(***************************************************************************)
C16_EvaluatePolicyNeverThrows ==
  \A policy \in PolicyInputs :
    LET r == evaluatePolicy(policy, cache)
        k == can(policy.role, policy.resource, policy.permission, cache, StackLimit)
    IN /\ ~r.threw
       /\ ~WellFormed(policy) => ~r.allowed
       /\ (WellFormed(policy) /\ k.threw) => ~r.allowed
       /\ (WellFormed(policy) /\ ~k.threw) => r.allowed = k.value

\* evaluatePolicy has answered a well-formed policy for which can threw
C16_CanThrewInsidePolicy ==
  /\ last.op = "evaluatePolicy"
  /\ last.out = "Policy evaluation error"
  /\ WellFormed(last.arg)

\* The fixed messages of evaluatePolicy, and its two templated sentences.
GenericReasons ==
  { "Invalid policy object", "Policy must include role, resource, and permission",
    "Invalid policy input", "Policy evaluation error" }
TemplatedReasons ==
  { "Role has permission on resource", "Role does not have permission on resource" }

(***************************************************************************)
(* C17: the reason evaluatePolicy returns is one of its fixed generic      *)
(* messages or one of its two templated sentences, and the templated       *)
(* sentences are built only for a policy whose fields passed validation;   *)
(* it is never the message of the exception that validateInput or can      *)
(* raised.                                                                 *)
(***************************************************************************)
C17_ReasonIsGenericOrTemplated ==
  \A policy \in PolicyInputs :
    LET r == evaluatePolicy(policy, cache)
    IN /\ r.reason \in GenericReasons \cup TemplatedReasons
       /\ r.reason \in TemplatedReasons => WellFormed(policy)

(***************************************************************************)
(* RBACManager.middleware: the handler it returns, run on one request.     *)
(* res.status(403).json(...) is taken to return normally.                  *)
(***************************************************************************)
\* what options.getUserRoles(req) does
Resolves(roles) == [kind |-> "array", value |-> roles]
ThrowsNow == [kind |-> "throws", value |-> <<>>]
Rejects == [kind |-> "rejects", value |-> <<>>]
NotAnArray == [kind |-> "notArray", value |-> <<>>]
RolesOutcomes == {Resolves(<<ROLE_C>>), Resolves(<<AB_UNDER>>), ThrowsNow, Rejects, NotAnArray}

\* options.resource and options.permission: a value (static, or returned by
\* the function), or a function that throws
Gives(v) == [kind |-> "value", value |-> v]
ResolverThrows == [kind |-> "throws", value |-> <<>>]

\* the options of one middleware and the behaviour of the next() handed to it
MiddlewareOptions ==
  [ resource : {Gives(RES_R), ResolverThrows},
    permission : {Gives(PERM_P), ResolverThrows},
    onDenied : {"absent", "returns", "throws"},
    next : {"returns", "throws"} ]

\* RBACManager.denyAccess: calls of onDenied, and the 403 bodies sent
denyAccess(message, onDenied) ==
  IF onDenied = "absent" THEN [handlerCalls |-> 0, responses |-> <<message>>]
  ELSE IF onDenied = "throws" THEN [handlerCalls |-> 1, responses |-> <<message>>]
  ELSE [handlerCalls |-> 1, responses |-> <<>>]

NoDenial == [handlerCalls |-> 0, responses |-> <<>>]

Finished(nextCalls, denial, allowed, c) ==
  [nextCalls |-> nextCalls, handlerCalls |-> denial.handlerCalls,
   responses |-> denial.responses, allowed |-> allowed, cache |-> c]

\* the handler from the permission check on; r is what engine.userCan did
middlewareDecide(r, o) ==
  IF ~r.threw /\ r.value
  THEN IF o.next = "throws"
       THEN Finished(1, denyAccess("Access denied due to an internal error", o.onDenied),
                     TRUE, r.cache)
       ELSE Finished(1, NoDenial, TRUE, r.cache)
  ELSE Finished(0, denyAccess("You don't have permission", o.onDenied), FALSE, r.cache)

\* the handler after the roles are settled
middlewareAfterRoles(roles, o, c) ==
  IF o.resource.kind = "throws"
  THEN Finished(0, denyAccess("Invalid resource", o.onDenied), FALSE, c)
  ELSE IF o.permission.kind = "throws"
  THEN Finished(0, denyAccess("Invalid permission", o.onDenied), FALSE, c)
  ELSE middlewareDecide(userCan(Many(roles), o.resource.value, o.permission.value, c), o)

\* the roles the handler goes on with
settledRoles(outcome) == IF outcome.kind = "array" THEN outcome.value ELSE <<>>

\* the handler runs from the point where the roles are settled to its end
MiddlewareFinish(o, outcome) ==
  \E f \in {middlewareAfterRoles(settledRoles(outcome), o, cache)} :
    /\ request' = [pc |-> "done", options |-> o, roles |-> outcome,
                   nextCalls |-> f.nextCalls, handlerCalls |-> f.handlerCalls,
                   responses |-> f.responses, allowed |-> f.allowed]
    /\ cache' = f.cache
    /\ UNCHANGED <<config, roleHierarchy, strict, now, last, hierarchyArg, outside, history>>

\* the handler is called: it calls getUserRoles; a synchronous throw is caught
\* at once and the handler runs to its end, anything else is awaited
MiddlewareCall(o, outcome) ==
  /\ request.pc # "awaiting"
  /\ IF outcome.kind = "throws"
     THEN MiddlewareFinish(o, outcome)
     ELSE /\ request' = [pc |-> "awaiting", options |-> o, roles |-> outcome]
          /\ UNCHANGED <<config, roleHierarchy, cache, strict, now, last, hierarchyArg, outside, history>>

\* the awaited value settles and the handler resumes
MiddlewareResume ==
  /\ request.pc = "awaiting"
  /\ MiddlewareFinish(request.options, request.roles)

NextMiddleware ==
  \/ \E o \in MiddlewareOptions, outcome \in RolesOutcomes : MiddlewareCall(o, outcome)
  \/ MiddlewareResume
  \/ \E cfg \in ConfigInputs : UpdateConfig(cfg)

SpecMiddleware == Init /\ [][NextMiddleware]_vars

Denied == request.handlerCalls + Len(request.responses) > 0

(***************************************************************************)
(* C14: when getUserRoles throws, rejects or yields something that is not  *)
(* an array, the handler ends with the request denied and next() not       *)
(* called, whatever the configuration is.                                  *)
(***************************************************************************)
C14_FailedRoleResolutionIsDenied ==
  (request.pc = "done" /\ request.roles.kind # "array") =>
    (request.nextCalls = 0 /\ Denied)

(***************************************************************************)
(* C15: when the handler has ended, either it called next() once, the      *)
(* permission check having returned true, and took no denial step, or it   *)
(* did not call next() and took the denial path; never both and never      *)
(* neither. Stated for the requests whose getUserRoles resolved to an      *)
(* array.                                                                  *)
(***************************************************************************)
C15_ExactlyOneOutcome ==
  (request.pc = "done" /\ request.roles.kind = "array") =>
    \/ request.nextCalls = 1 /\ request.allowed /\ ~Denied
    \/ request.nextCalls = 0 /\ Denied

(***************************************************************************)
(* The mutation entry points with the arguments callers can hand them, and *)
(* a specification of them together with can, which fills the cache.       *)
(***************************************************************************)
GrantCalls ==
  { <<ROLE_C, RES_R, One(PERM_P)>>, <<ROLE_C, RES_R, Many(<<PERM_P, DASHES>>)>>,
    <<ROLE_C, RES_R, Many(<<PERM_P, EMPTY>>)>>, <<ROLE_C, RES_R, Many(<<>>)>>,
    <<ROLE_C, RES_R, NoArg>>, <<ROLE_C, DASHES, One(PERM_P)>>,
    <<ROLE_C, Undefined, One(PERM_P)>>, <<AB_UNDER, RES_R, One(PERM_P)>>,
    <<EMPTY, RES_R, One(PERM_P)>>, <<AB_COLON, RES_R, One(PERM_P)>> }

RevokeCalls ==
  { <<ROLE_C, RES_R, One(PERM_P)>>, <<ROLE_C, RES_R, NoArg>>,
    <<ROLE_C, AB_NEWLINE, NoArg>>, <<ROLE_C, RES_R, Many(<<PERM_P, EMPTY>>)>>,
    <<BLANK, RES_R, One(PERM_P)>> }

AddRoleCalls ==
  { <<BLANK, RoleDef(NoResources)>>, <<ROLE_C, RoleDef(RES_R :> <<DASHES>>)>>,
    <<AB_UNDER, RoleDef(RES_R :> <<EMPTY>>)>>, <<EMPTY, RoleDef(NoResources)>> }

NextMutation ==
  \/ \E call \in GrantCalls : Grant(call[1], call[2], call[3])
  \/ \E call \in RevokeCalls : Revoke(call[1], call[2], call[3])
  \/ \E call \in AddRoleCalls : AddRole(call[1], call[2])
  \/ \E role \in {ROLE_C, AB_UNDER} : Can(role, RES_R, PERM_P)
  \/ SetRoleHierarchy((ROLE_C :> <<AB_UNDER>>))

SpecMutation == Init /\ [][NextMutation]_vars

\* The permissions configured for (role, resource), as a set.
PermissionSet(cfg, role, resource) ==
  IF role \in DOMAIN cfg.roles /\ resource \in DOMAIN cfg.roles[role].permissions
  THEN ListSet(cfg.roles[role].permissions[resource])
  ELSE {}

\* The permissions a grant argument names, as a set.
ArgumentSet(permission) ==
  IF permission.kind = "array" THEN ListSet(permission.value) ELSE {permission.value}

ResourcesOf(cfg, role) == DOMAIN cfg.roles[role].permissions

(***************************************************************************)
(* C18: a grant(role, resource, P) that returns makes the permission set   *)
(* of (role, resource) the union of its previous set and P, and leaves     *)
(* the set of roles, the default role, the hierarchy and the permission    *)
(* set of every other (role, resource) as they were.                       *)
(***************************************************************************)
C18_GrantIsUnionAndFrame ==
  [][ \A call \in GrantCalls :
        (last'.op = "grant" /\ last'.out = "ok" /\ Grant(call[1], call[2], call[3])) =>
          /\ PermissionSet(config', call[1], call[2])
               = PermissionSet(config, call[1], call[2]) \cup ArgumentSet(call[3])
          /\ DOMAIN config'.roles = DOMAIN config.roles
          /\ config'.defaultRole = config.defaultRole
          /\ roleHierarchy' = roleHierarchy
          /\ \A role \in DOMAIN config.roles :
               /\ ResourcesOf(config', role) \ {call[2]} = ResourcesOf(config, role) \ {call[2]}
               /\ \A resource \in ResourcesOf(config, role) :
                    <<role, resource>> # <<call[1], call[2]>> =>
                      config'.roles[role].permissions[resource]
                        = config.roles[role].permissions[resource] ]_vars

\* grant has returned after adding to a list that already held a permission
C18_GrantedOntoNonEmptyList ==
  /\ last.op = "grant"
  /\ last.out = "ok"
  /\ Cardinality(PermissionSet(config, ROLE_C, RES_R)) >= 2
  /\ STAR \in PermissionSet(config, ROLE_C, RES_R)

\* The element is one that grant's own check of the list rejects.
EmptyOrNotString(p) == Falsy(p) \/ ~IsString(p)

\* The grant call names a role that is not configured, or its permission
\* list holds an element that is empty or not a string.
DoomedGrant(call) ==
  /\ ~EmptyOrNotString(call[1]) /\ ~EmptyOrNotString(call[2])
  /\ call[3].kind # "undefined"
  /\ \/ call[1] \notin DOMAIN config.roles
     \/ \E p \in ArgumentSet(call[3]) : EmptyOrNotString(p)

StoredIdentifiers ==
  DOMAIN config.roles
    \cup UNION {ResourcesOf(config, role) : role \in DOMAIN config.roles}
    \cup UNION {PermissionSet(config, role, resource) :
                  role \in DOMAIN config.roles, resource \in ResIds \cup BadIds}

(***************************************************************************)
(* C20: grant, revoke and addRole throw for every identifier that          *)
(* validateInput rejects, so that, starting from a configuration of valid  *)
(* identifiers, the configuration never holds an identifier that           *)
(* validateInput rejects.                                                  *)
(***************************************************************************)
C20_StoredIdentifiersAreValid ==
  \A id \in StoredIdentifiers : Valid(id)

\* The permission list configured for (role, resource) holds no element twice.
DuplicateFree(list) == \A i, j \in 1..Len(list) : list[i] = list[j] => i = j

\* The grant call names permissions that the role already holds on the resource.
AlreadyHeld(cfg, call) ==
  /\ call[1] \in DOMAIN cfg.roles
  /\ call[2] \in ResourcesOf(cfg, call[1])
  /\ call[3].kind # "undefined"
  /\ ArgumentSet(call[3]) \subseteq PermissionSet(cfg, call[1], call[2])

\* The revoke call names no permission that the role holds on the resource
\* (with no permission argument: the role holds none on the resource).
NeverHeld(cfg, call) ==
  IF call[3].kind = "undefined" THEN PermissionSet(cfg, call[1], call[2]) = {}
  ELSE ArgumentSet(call[3]) \cap PermissionSet(cfg, call[1], call[2]) = {}

(***************************************************************************)
(* C21: a grant that returns for permissions the role already holds on the *)
(* resource leaves that permission set with the same members and the same  *)
(* size, and the configuration as it was; a revoke that returns for        *)
(* permissions the role does not hold leaves the configuration as it was.  *)
(* Every grant that returns ends in a state where its permissions are      *)
(* held, and every revoke that returns in one where they are not, so that  *)
(* the same call made again changes nothing.                               *)
(***************************************************************************)
C21_GrantAndRevokeAreIdempotent ==
  [][ /\ \A call \in GrantCalls :
           (last'.op = "grant" /\ last'.out = "ok" /\ Grant(call[1], call[2], call[3])) =>
             /\ AlreadyHeld(config', call)
             /\ AlreadyHeld(config, call) =>
                  /\ PermissionSet(config', call[1], call[2])
                       = PermissionSet(config, call[1], call[2])
                  /\ Len(config'.roles[call[1]].permissions[call[2]])
                       = Len(config.roles[call[1]].permissions[call[2]])
                  /\ config' = config
      /\ \A call \in RevokeCalls :
           (last'.op = "revoke" /\ last'.out = "ok" /\ Revoke(call[1], call[2], call[3])) =>
             /\ NeverHeld(config', call)
             /\ NeverHeld(config, call) => config' = config ]_vars

\* grant has returned and the configuration is the one of construction in
\* which a:b holds p on r: no other call of this specification touches a:b,
\* so the grant was of p to a:b, which held it
C21_GrantedWhatWasHeld ==
  /\ last.op = "grant"
  /\ last.out = "ok"
  /\ DOMAIN config.roles = {AB_COLON, AB_UNDER, ROLE_C}
  /\ config.roles[AB_COLON].permissions = (RES_R :> <<PERM_P>>)
  /\ config.roles[AB_UNDER].permissions = (RES_R :> <<>>)
  /\ ResourcesOf(config, ROLE_C) = {}

\* Everything of the two configurations except the list of (role, resource)
\* is the same, and so is the hierarchy.
SameElsewhere(role, resource) ==
  /\ DOMAIN config'.roles = DOMAIN config.roles
  /\ config'.defaultRole = config.defaultRole
  /\ roleHierarchy' = roleHierarchy
  /\ \A r \in DOMAIN config.roles :
       /\ ResourcesOf(config', r) = ResourcesOf(config, r)
       /\ \A res \in ResourcesOf(config, r) :
            <<r, res>> # <<role, resource>> =>
              config'.roles[r].permissions[res] = config.roles[r].permissions[res]

\* The revoke call passes revoke's own checks of its arguments.
AcceptedRevoke(call) ==
  /\ ~EmptyOrNotString(call[1]) /\ ~EmptyOrNotString(call[2])
  /\ call[3].kind # "undefined" => \A p \in ArgumentSet(call[3]) : ~EmptyOrNotString(p)

(***************************************************************************)
(* C22: a revoke on an absent role or an absent resource returns without   *)
(* throwing and changes nothing. A revoke that returns with no permission  *)
(* argument leaves the resource key present with an empty list; one that   *)
(* returns with a permission or a list of permissions has removed exactly  *)
(* those from the list. Every other list, the set of roles, the default    *)
(* role and the hierarchy stay as they were. Stated for calls whose role   *)
(* and resource are non-empty strings.                                     *)
(***************************************************************************)
C22_RevokeRemovesExactlyTheNamed ==
  [][ \A call \in RevokeCalls :
        (last'.op = "revoke" /\ AcceptedRevoke(call) /\ Revoke(call[1], call[2], call[3])) =>
          IF call[1] \notin DOMAIN config.roles
             \/ call[2] \notin ResourcesOf(config, call[1])
          THEN last'.out = "ok" /\ config' = config /\ roleHierarchy' = roleHierarchy
          ELSE last'.out = "ok" =>
                 /\ SameElsewhere(call[1], call[2])
                 /\ IF call[3].kind = "undefined"
                    THEN config'.roles[call[1]].permissions[call[2]] = <<>>
                    ELSE PermissionSet(config', call[1], call[2])
                           = PermissionSet(config, call[1], call[2]) \ ArgumentSet(call[3]) ]_vars

\* revoke has returned and the role c, which no construction leaves with an
\* empty list on r, has the key r with an empty list
C22_RevokedToEmptyList ==
  /\ last.op = "revoke"
  /\ last.out = "ok"
  /\ ROLE_C \in DOMAIN config.roles
  /\ RES_R \in ResourcesOf(config, ROLE_C)
  /\ config.roles[ROLE_C].permissions[RES_R] = <<>>

\* The permissions a revoke call takes away: those it names, or with no
\* permission argument every permission that is asked about.
Revoked(call) ==
  IF call[3].kind = "undefined" THEN {PERM_P} ELSE ArgumentSet(call[3])

\* The roles reachable from the role through the hierarchy, the role excluded.
Ancestors(hierarchy, role) == Closure(hierarchy, Parents(hierarchy, role))

(***************************************************************************)
(* C23: after a revoke(role, resource, p), or a revoke(role, resource),    *)
(* that returned, can(role, resource, p) returns false whenever no         *)
(* ancestor of the role holds p on the resource, whatever the cache held   *)
(* before. Stated for the hierarchies whose parents are all configured     *)
(* and the role, resource and permission that validateInput accepts.       *)
(***************************************************************************)
C23_RevokedIsDenied ==
  [][ \A call \in RevokeCalls :
        (last'.op = "revoke" /\ last'.out = "ok" /\ AcceptedRevoke(call)
           /\ Revoke(call[1], call[2], call[3])) =>
          \A p \in Revoked(call) :
            ( /\ AllParentsConfigured
              /\ Valid(call[1]) /\ Valid(call[2]) /\ Valid(p)
              /\ \A a \in Ancestors(roleHierarchy, call[1]) :
                   ~DirectlyHolds(a, call[2], p) ) =>
              ReturnedFalse(CanNow(<<call[1], call[2], p>>))' ]_vars

(***************************************************************************)
(* C24: removeRole on a configured role removes that role and no other,    *)
(* clears the default role exactly when it named the removed role, and     *)
(* leaves every other role definition and the hierarchy as they were;      *)
(* removeRole on a role that is not configured returns without throwing    *)
(* and changes nothing. Stated for roles that are non-empty strings, and   *)
(* for the configuration the call leaves behind whether or not             *)
(* engine.updateConfig then throws.                                        *)
(***************************************************************************)
C24_RemoveRoleRemovesExactlyTheRole ==
  [][ \A role \in RoleIds :
        (last'.op = "removeRole" /\ RemoveRole(role)) =>
          IF role \notin DOMAIN config.roles
          THEN last'.out = "ok" /\ config' = config /\ roleHierarchy' = roleHierarchy
          ELSE /\ DOMAIN config'.roles = DOMAIN config.roles \ {role}
               /\ \A r \in DOMAIN config'.roles : config'.roles[r] = config.roles[r]
               /\ config'.defaultRole
                    = (IF config.defaultRole = role THEN Undefined ELSE config.defaultRole)
               /\ roleHierarchy' = roleHierarchy ]_vars

\* removeRole has returned, a hierarchy is set, and only a_b is left, with no
\* default role: no construction gives that configuration, so configured
\* roles have been removed
C24_RemovedTheDefaultRole ==
  /\ last.op = "removeRole"
  /\ last.out = "ok"
  /\ DOMAIN config.roles = {AB_UNDER}
  /\ config.defaultRole = Undefined
  /\ roleHierarchy # <<>>

(***************************************************************************)
(* C25: in every reachable state, also after a call that ended by          *)
(* throwing, the configuration holds at least one role, and its default    *)
(* role, when set, is one of its roles.                                    *)
(***************************************************************************)
C25_ConfigurationStaysValid ==
  /\ DOMAIN config.roles # {}
  /\ ~Falsy(config.defaultRole) => config.defaultRole \in DOMAIN config.roles

(***************************************************************************)
(* Configurations and role definitions whose permission lists repeat an    *)
(* element, and a specification of the calls that take them in.            *)
(***************************************************************************)
RepeatingConfigs ==
  { Cfg((ROLE_C :> RoleDef(RES_R :> <<PERM_P, PERM_P>>)), Undefined),
    Cfg((ROLE_C :> RoleDef(RES_R :> <<PERM_P>>))
          @@ (AB_UNDER :> RoleDef(RES_R :> <<STAR, PERM_P, STAR>>)), ROLE_C) }

IngestConfigs == ConfigInputs \cup RepeatingConfigs

IngestDefinitions == {RoleDef(NoResources), RoleDef(RES_R :> <<PERM_P, PERM_P>>)}

InitIngest ==
  /\ config \in {cfg \in IngestConfigs : validateConfig(cfg) = ""}
  /\ roleHierarchy = <<>>
  /\ cache \in {NewCache(TRUE), NewCache(FALSE)}
  /\ strict \in BOOLEAN
  /\ now = 0
  /\ last = Outcome("constructor", "ok")
  /\ hierarchyArg = <<>>
  /\ request = NoRequest
  /\ outside = NoOutside
  /\ history = NoHistory

NextIngest ==
  \/ \E cfg \in IngestConfigs : UpdateConfig(cfg)
  \/ \E role \in {ROLE_C, AB_UNDER}, definition \in IngestDefinitions :
       AddRole(role, definition)
  \/ \E role \in {ROLE_C, AB_UNDER} : Grant(role, RES_R, One(PERM_P))
  \/ \E role \in {ROLE_C, AB_UNDER} : Can(role, RES_R, PERM_P)

SpecIngest == InitIngest /\ [][NextIngest]_vars

(***************************************************************************)
(* C26: in every reachable state, no permission list of the configuration  *)
(* holds an element twice, whatever lists the constructor, updateConfig    *)
(* and addRole were handed.                                                *)
(***************************************************************************)
C26_ListsAreDuplicateFree ==
  \A role \in DOMAIN config.roles :
    \A resource \in ResourcesOf(config, role) :
      DuplicateFree(config.roles[role].permissions[resource])

(***************************************************************************)
(* Configuration objects in the caller's hands. The constructor keeps the  *)
(* object it is handed (this.config = config), and getConfig returns       *)
(* { ...this.config }: a new top-level object whose roles property is the  *)
(* roles object the engine is using. engine.updateConfig assigns a fresh   *)
(* clone, after which the objects handed out earlier are no longer the     *)
(* engine's.                                                               *)
(***************************************************************************)
\* the object handed to the constructor: the engine's configuration itself
ConstructorObject(cfg) ==
  [kind |-> "constructor", shared |-> TRUE, roles |-> cfg.roles,
   defaultRole |-> cfg.defaultRole]

\* the object getConfig returns
SpreadOf(cfg) ==
  [kind |-> "getConfig", shared |-> TRUE, roles |-> cfg.roles,
   defaultRole |-> cfg.defaultRole]

\* RBACManager.getConfig
GetConfig ==
  /\ outside' = SpreadOf(config)
  /\ last' = Outcome("getConfig", "ok")
  /\ UNCHANGED <<config, roleHierarchy, cache, strict, now, hierarchyArg, request, history>>

\* what the caller does to the object it holds, by depth: push onto a
\* permission list, assign a key of a role's permission map, assign a key of
\* the role map, assign a top-level property
Edits == {"pushPermission", "setResource", "setRole", "setDefaultRole"}

CanEdit(edit) ==
  /\ outside.kind # "none"
  /\ edit = "pushPermission" =>
       /\ ROLE_C \in DOMAIN outside.roles
       /\ RES_R \in DOMAIN outside.roles[ROLE_C].permissions
       /\ ~includes(outside.roles[ROLE_C].permissions[RES_R], PERM_P)
  /\ edit = "setResource" => ROLE_C \in DOMAIN outside.roles

Edited(edit) ==
  IF edit = "pushPermission"
  THEN [outside EXCEPT !.roles[ROLE_C].permissions[RES_R] = Append(@, PERM_P)]
  ELSE IF edit = "setResource"
  THEN [outside EXCEPT !.roles[ROLE_C].permissions =
          [res \in DOMAIN @ \cup {RES_R} |-> IF res = RES_R THEN <<PERM_P>> ELSE @[res]]]
  ELSE IF edit = "setRole"
  THEN [outside EXCEPT !.roles =
          [r \in DOMAIN @ \cup {AB_UNDER} |->
             IF r = AB_UNDER THEN RoleDef(RES_R :> <<PERM_P>>) ELSE @[r]]]
  ELSE [outside EXCEPT !.defaultRole = AB_UNDER]

\* the caller modifies the object it holds; what it shares with the engine
\* changes for the engine too
CallerModifies(edit) ==
  /\ CanEdit(edit)
  /\ outside' = Edited(edit)
  /\ config' = IF ~outside.shared THEN config
               ELSE [roles |-> Edited(edit).roles,
                     defaultRole |-> IF outside.kind = "constructor"
                                     THEN Edited(edit).defaultRole
                                     ELSE config.defaultRole]
  /\ last' = Outcome("callerModifies", "ok")
  /\ UNCHANGED <<roleHierarchy, cache, strict, now, hierarchyArg, request, history>>

InitAlias ==
  /\ config \in {cfg \in ConfigInputs : validateConfig(cfg) = ""}
  /\ roleHierarchy = <<>>
  /\ cache \in {NewCache(TRUE), NewCache(FALSE)}
  /\ strict \in BOOLEAN
  /\ now = 0
  /\ last = Outcome("constructor", "ok")
  /\ hierarchyArg = <<>>
  /\ request = NoRequest
  /\ outside = ConstructorObject(config)
  /\ history = NoHistory

NextAlias ==
  \/ GetConfig
  \/ \E edit \in Edits : CallerModifies(edit)
  \/ \E role \in {ROLE_C, AB_UNDER} : Grant(role, RES_R, One(PERM_P))
  \/ \E permission \in RevokeArgs : Revoke(ROLE_C, RES_R, permission)
  \/ AddRole(AB_UNDER, RoleDef(NoResources))
  \/ \E role \in {ROLE_C, AB_UNDER} : RemoveRole(role)
  \/ \E cfg \in ConfigInputs : UpdateConfig(cfg)
  \/ Can(ROLE_C, RES_R, PERM_P)

SpecAlias == InitAlias /\ [][NextAlias]_vars

\* The roles object a caller's object shares with the engine is the engine's.
SharedIsTheEngines == outside.shared => outside.roles = config.roles

\* C27: modifying the object getConfig returned, at any depth, changes neither
\* the engine's configuration nor what getRoles, getPermissions and
\* getResources return afterwards.
C27_GetConfigIsADeepCopy ==
  [][(outside.kind = "getConfig" /\ \E edit \in Edits : CallerModifies(edit))
       => /\ config' = config
          /\ DOMAIN config'.roles = DOMAIN config.roles
          /\ getPermissions(ROLE_C, RES_R, StackLimit)' =
               getPermissions(ROLE_C, RES_R, StackLimit)
          /\ getResources(ROLE_C, StackLimit)' = getResources(ROLE_C, StackLimit)]_vars

\* the writes of the manager
WriteOps == {"grant", "revoke", "addRole", "removeRole"}

\* C28: a grant, revoke, addRole or removeRole leaves every configuration
\* object in the caller's hands (the constructor's argument, an earlier
\* getConfig result) as it was.
C28_WritesLeaveCallerObjects ==
  [][(outside.kind # "none" /\ last'.op \in WriteOps /\ outside' # outside)
       => /\ outside'.roles = outside.roles
          /\ outside'.defaultRole = outside.defaultRole]_vars

(***************************************************************************)
(* The same query twice.                                                   *)
(***************************************************************************)
\* the second of two identical calls, issued on the cache the first one left
Again(t, first) == can(t[1], t[2], t[3], first.cache, StackLimit)

SameAnswerSameSize(first, second) ==
  /\ ~second.threw
  /\ second.value = first.value
  /\ cacheSize(second.cache) = cacheSize(first.cache)

HeldAfter(t, first) == cacheGet(first.cache, t[1], t[2], t[3]).hit

Twice(t, first) ==
  ~first.threw => HeldAfter(t, first) /\ SameAnswerSameSize(first, Again(t, first))

\* C29: with the cache enabled, a query that returned a boolean returns the
\* same boolean when issued again at once, the second call finds its entry in
\* the cache, and the cache is as large after the second call as after the
\* first.
C29_SecondCallServedFromCache ==
  cache.enabled => \A t \in Queries : Twice(t, CanNow(t))

\* a first call has returned and left its entry, which an identical second
\* call finds
C29_FirstCallCached ==
  /\ cache.enabled
  /\ last.op = "can" /\ last.out \in {"true", "false"}
  /\ \E t \in Queries :
       /\ cacheGet(cache, t[1], t[2], t[3]).hit
       /\ t[1] \in DOMAIN roleHierarchy
       /\ ~CanNow(t).threw

(***************************************************************************)
(* C30: setRoleHierarchy accepts every mapping in which no role reaches    *)
(* itself through parent links (chains, diamonds, parents that are neither *)
(* keys of the mapping nor configured roles); the stored hierarchy is then *)
(* the supplied mapping and the cache is empty.                            *)
(***************************************************************************)
C30_AcyclicHierarchyAccepted ==
  [][(SetRoleHierarchy(hierarchyArg) /\ ~HasCycle(hierarchyArg)) =>
       /\ last'.out = "ok"
       /\ roleHierarchy' = hierarchyArg
       /\ cacheSize(cache') = 0]_vars

\* The diamond has been installed.
C30_DiamondInstalled ==
  /\ last = Outcome("setRoleHierarchy", "ok")
  /\ hierarchyArg = Diamond
  /\ roleHierarchy = Diamond
  /\ AB_NEWLINE \notin DOMAIN roleHierarchy \cup DOMAIN config.roles
  /\ cacheSize(cache) = 0

(***************************************************************************)
(* The role named by the circular-reference Error. validateHierarchy walks *)
(* the keys of the mapping in their property order (for ... in) and names  *)
(* the key whose traversal found a cycle.                                  *)
(***************************************************************************)
NoRole == <<"none">>

\* the property orders an object with these keys can have
KeyOrders(hierarchy) ==
  LET n == Cardinality(DOMAIN hierarchy)
  IN {keys \in [1..n -> DOMAIN hierarchy] :
        \A i, j \in 1..n : i # j => keys[i] # keys[j]}

RECURSIVE validateHierarchyFrom(_, _, _)
\* RBACEngine.validateHierarchy from the i-th key on: the role in the message
\* of the Error it throws, or NoRole when it returns
validateHierarchyFrom(keys, i, hierarchy) ==
  IF i > Len(keys) THEN NoRole
  ELSE IF detectCycle(keys[i], hierarchy, {}, {}).found THEN keys[i]
  ELSE validateHierarchyFrom(keys, i + 1, hierarchy)

CircularReference(role) == [op |-> "setRoleHierarchy", out |-> "throw", role |-> role]

\* RBACManager.setRoleHierarchy, for a mapping whose keys come in this order
SetRoleHierarchyKeyed(keys, hierarchy) ==
  \E named \in {validateHierarchyFrom(keys, 1, hierarchy)} :
    IF named # NoRole
    THEN /\ last' = CircularReference(named)
         /\ UNCHANGED <<config, roleHierarchy, cache, strict, now, hierarchyArg,
                        request, outside, history>>
    ELSE /\ roleHierarchy' = hierarchy
         /\ cache' = IF cache.enabled THEN cacheClear(cache) ELSE cache
         /\ cache'.version <= MaxVersion
         /\ last' = Outcome("setRoleHierarchy", "ok")
         /\ UNCHANGED <<config, strict, now, hierarchyArg, request, outside, history>>

NextNaming ==
  \/ \E keys \in KeyOrders(hierarchyArg) : SetRoleHierarchyKeyed(keys, hierarchyArg)
  \/ Can(ROLE_C, RES_R, PERM_P)

SpecNaming == InitHierarchy /\ [][NextNaming]_vars

\* The role reaches itself by following parent links of the mapping.
OnCycle(hierarchy, role) == role \in Closure(hierarchy, Parents(hierarchy, role))

\* C31: the role named in the circular-reference Error lies on a cycle of the
\* mapping that was handed in.
C31_NamedRoleIsOnACycle ==
  (last.op = "setRoleHierarchy" /\ last.out = "throw") =>
     OnCycle(hierarchyArg, last.role)

(***************************************************************************)
(* Termination of the parent recursion. A recursion that does not end      *)
(* exhausts the call stack; StackLimit frames are more than any chain of   *)
(* distinct roles needs.                                                   *)
(***************************************************************************)
Overflows(r) == r.threw /\ r.error = "Maximum call stack size exceeded"

\* C32: the stored hierarchy is acyclic in every reachable state, and no can,
\* userCan, getPermissions or getResources call runs into the end of the
\* call stack.
C32_HierarchyAcyclicAndQueriesTerminate ==
  /\ ~HasCycle(roleHierarchy)
  /\ \A t \in Queries : ~Overflows(CanNow(t)) /\ ~Overflows(CanUncached(t))
  /\ \A user \in UserInputs :
       user.kind = "array" => ~Overflows(userCanTry(user.value, RES_R, PERM_P, cache))
  /\ \A role \in RoleIds :
       /\ ~Overflows(getPermissions(role, RES_R, StackLimit))
       /\ ~Overflows(getResources(role, StackLimit))

\* A chain of two parent links is installed and getPermissions has walked it.
C32_WalkedAChain ==
  /\ roleHierarchy = (ROLE_C :> <<AB_COLON>>) @@ (AB_COLON :> <<AB_UNDER>>)
  /\ last.op = "getPermissions" /\ last.arg = <<ROLE_C, RES_R>> /\ last.out = "ok"
  /\ DOMAIN config.roles = RoleIds

(***************************************************************************)
(* A PermissionCache used on its own: new PermissionCache(maxSize, ttl),   *)
(* then get, set, clear and incrementVersion while the clock advances.     *)
(* history keeps, beside the cache, what the cache is meant to remember:   *)
(* the stored keys from the least to the most recently used, where a use   *)
(* is the insertion of a key that is not stored or a get that hits, and    *)
(* the time each stored value was written.                                 *)
(***************************************************************************)
CacheTriples ==
  {<<ROLE_C, RES_R, PERM_P>>, <<AB_UNDER, RES_R, PERM_P>>, <<ROLE_C, RES_R, STAR>>}

MaxSizes == 0..(CacheMaxSize + 1)
Ttls == {0, CacheTtl}

KeyOf(t) == createKey(t[1], t[2], t[3])
KeySet(c) == {c.entries[i].key : i \in 1..Len(c.entries)}
Without(order, key) == SelectSeq(order, LAMBDA k : k # key)
AtCapacity(c) == cacheSize(c) >= c.maxSize

\* the keys that are still stored, and their times
Forget(h, c) ==
  [order |-> SelectSeq(h.order, LAMBDA k : k \in KeySet(c)),
   written |-> [k \in DOMAIN h.written \cap KeySet(c) |-> h.written[k]]]

\* a get that hit makes the key the most recently used
Promote(h, key) == [h EXCEPT !.order = Append(Without(@, key), key)]

\* a set at capacity first gives up the least recently used key; a key that
\* is not stored becomes the most recently used; the value is written now
Remember(h, key, atCapacity) ==
  LET left == IF atCapacity /\ Len(h.order) > 0 THEN Tail(h.order) ELSE h.order
      seen == {left[i] : i \in 1..Len(left)}
  IN [order |-> IF key \in seen THEN left ELSE Append(left, key),
      written |-> [k \in seen \cup {key} |-> IF k = key THEN now ELSE h.written[k]]]

\* PermissionCache.get
CacheGet(t) ==
  \E r \in {cacheGet(cache, t[1], t[2], t[3])} :
    /\ cache' = r.cache
    /\ history' = IF r.hit THEN Promote(history, KeyOf(t)) ELSE Forget(history, r.cache)
    /\ last' = Outcome("get", IF ~r.hit THEN "undefined"
                              ELSE IF r.value THEN "true" ELSE "false")
    /\ UNCHANGED <<config, roleHierarchy, strict, now, hierarchyArg, request, outside>>

\* PermissionCache.set
CacheSet(t, value) ==
  /\ cache' = cacheSet(cache, t[1], t[2], t[3], value)
  /\ history' = Remember(history, KeyOf(t), AtCapacity(cache))
  /\ last' = Outcome("set", "ok")
  /\ UNCHANGED <<config, roleHierarchy, strict, now, hierarchyArg, request, outside>>

\* PermissionCache.clear
CacheClear ==
  /\ cache.version < MaxVersion
  /\ cache' = cacheClear(cache)
  /\ history' = NoHistory
  /\ last' = Outcome("clear", "ok")
  /\ UNCHANGED <<config, roleHierarchy, strict, now, hierarchyArg, request, outside>>

\* PermissionCache.incrementVersion
IncrementVersion ==
  /\ cache.version < MaxVersion
  /\ cache' = [cache EXCEPT !.version = @ + 1]
  /\ last' = Outcome("incrementVersion", "ok")
  /\ UNCHANGED <<config, roleHierarchy, strict, now, hierarchyArg, request, outside,
                 history>>

\* the clock advances
Tick ==
  /\ now < MaxNow
  /\ now' = now + 1
  /\ UNCHANGED <<config, roleHierarchy, cache, strict, last, hierarchyArg, request,
                 outside, history>>

InitCache ==
  /\ config = Cfg((ROLE_C :> RoleDef(RES_R :> <<PERM_P>>)), Undefined)
  /\ roleHierarchy = <<>>
  /\ cache \in {PermissionCache(TRUE, maxSize, ttl) : maxSize \in MaxSizes, ttl \in Ttls}
  /\ strict = FALSE
  /\ now = 0
  /\ last = Outcome("constructor", "ok")
  /\ hierarchyArg = <<>>
  /\ request = NoRequest
  /\ outside = NoOutside
  /\ history = NoHistory

NextCache ==
  \/ \E t \in CacheTriples : CacheGet(t)
  \/ \E t \in CacheTriples, value \in BOOLEAN : CacheSet(t, value)
  \/ CacheClear
  \/ IncrementVersion
  \/ Tick

SpecCache == InitCache /\ [][NextCache]_vars

\* C33: the cache never holds more entries than the maxSize it was
\* constructed with.
C33_SizeWithinMaxSize == cacheSize(cache) <= cache.maxSize

\* C34: a set on a cache at capacity removes exactly one entry, the least
\* recently used one (recency being the last get that hit, or the insertion),
\* and then inserts: the keys stored afterwards are those stored before
\* without the least recently used one, and the key that was set.
C34_SetEvictsLeastRecentlyUsed ==
  [][\A t \in CacheTriples, value \in BOOLEAN :
       (AtCapacity(cache) /\ CacheSet(t, value)) =>
          /\ Len(history.order) > 0
          /\ KeySet(cache') = (KeySet(cache) \ {Head(history.order)}) \cup {KeyOf(t)}]_vars

\* the entry stored under the key, in a cache that stores the key
EntryOf(c, key) == c.entries[IndexOfKey(c.entries, key)]

Stores(c, key) == IndexOfKey(c.entries, key) > 0

\* The get of the step hit: the entry carries the current version, has not
\* expired, was written at most ttl ago, and is kept as it was.
HitIsOfALiveEntry(key) ==
  /\ Stores(cache, key)
  /\ EntryOf(cache, key).version = cache.version
  /\ EntryOf(cache, key).expiresAt >= now
  /\ last'.out = (IF EntryOf(cache, key).value THEN "true" ELSE "false")
  /\ now <= history.written[key] + cache.ttl
  /\ Stores(cache', key) /\ EntryOf(cache', key) = EntryOf(cache, key)

\* The get of the step missed: the key is not stored afterwards, and if it
\* was stored its entry was of an older version or had expired.
MissRemovesTheEntry(key) ==
  /\ ~Stores(cache', key)
  /\ Stores(cache, key) =>
       \/ EntryOf(cache, key).version # cache.version
       \/ EntryOf(cache, key).expiresAt < now

\* C35: get serves a stored value only from an entry of the current version
\* that has not expired, and otherwise misses and removes the entry; a hit
\* leaves the expiration as it was, so nothing is served later than ttl after
\* it was written; after clear or incrementVersion nothing written before is
\* served.
C35_GetServesOnlyLiveEntries ==
  [][/\ \A t \in CacheTriples :
          CacheGet(t) => IF last'.out = "undefined"
                         THEN MissRemovesTheEntry(KeyOf(t))
                         ELSE HitIsOfALiveEntry(KeyOf(t))
     /\ (CacheClear \/ IncrementVersion) =>
          \A t \in CacheTriples : ~cacheGet(cache', t[1], t[2], t[3]).hit]_vars

\* An entry has been read by a hit at the very end of its life, after an
\* earlier version of the cache was given up.
C35_ServedAtTheLastMoment ==
  /\ last.op = "get" /\ last.out \in {"true", "false"}
  /\ cache.version > 1
  /\ cache.ttl > 0
  /\ \E i \in 1..Len(cache.entries) :
       /\ cache.entries[i].expiresAt = now
       /\ history.order[Len(history.order)] = cache.entries[i].key

(***************************************************************************)
(* A can call in two steps. checkPermission reads the configuration and    *)
(* then calls this.logger.debug(...) before can stores the result; the     *)
(* logger is the caller's (options.logger) and may call back into the      *)
(* manager. request holds the call that is inside the logger: its triple,  *)
(* the result it computed, and the cache version at the time it read the   *)
(* configuration. The roles asked about have no parents here.              *)
(***************************************************************************)
InLogger(t, value, version) ==
  [pc |-> "logger", query |-> t, value |-> value, version |-> version]

\* RBACEngine.can up to the logger call of checkPermission
CanCheck(t) ==
  /\ request = NoRequest
  /\ cache.enabled
  /\ t[1] \notin DOMAIN roleHierarchy
  /\ \E g \in {cacheGet(cache, t[1], t[2], t[3])} :
     \E allowed \in {checkPermission(t[1], t[2], t[3])} :
       /\ cache' = g.cache
       /\ IF g.hit
          THEN /\ last' = Outcome("can", IF g.value THEN "true" ELSE "false")
               /\ request' = request
          ELSE IF allowed.threw
          THEN /\ last' = Outcome("can", "throw")
               /\ request' = request
          ELSE /\ last' = Outcome("can", "logger")
               /\ request' = InLogger(t, allowed.value, cache.version)
  /\ UNCHANGED <<config, roleHierarchy, strict, now, hierarchyArg, outside, history>>

\* RBACEngine.can after the logger returned: cacheResult and return
CanStore ==
  /\ request # NoRequest
  /\ request.pc = "logger"
  /\ cache' = cacheSet(cache, request.query[1], request.query[2], request.query[3],
                       request.value)
  /\ last' = Outcome("can", IF request.value THEN "true" ELSE "false")
  /\ request' = NoRequest
  /\ UNCHANGED <<config, roleHierarchy, strict, now, hierarchyArg, outside, history>>

NextRace ==
  \/ \E t \in ValidQueries : CanCheck(t)
  \/ CanStore
  \/ ClearCache
  \/ \E role \in {ROLE_C, AB_UNDER} : Grant(role, RES_R, One(PERM_P))
  \/ \E role \in {ROLE_C, AB_COLON} : Revoke(role, RES_R, NoArg)
  \/ \E cfg \in ConfigInputs : UpdateConfig(cfg)

SpecRace == Init /\ [][NextRace]_vars

\* C36: the result a can call stores carries the cache version that was
\* current when the call read the configuration; if the cache was cleared
\* between the read and the store, the next get does not serve the result.
C36_StaleWriteIsDiscarded ==
  [][(request # NoRequest /\ CanStore) =>
       /\ EntryOf(cache', KeyOf(request.query)).version = request.version
       /\ cache.version # request.version =>
            ~cacheGet(cache', request.query[1], request.query[2], request.query[3]).hit
    ]_vars

(***************************************************************************)
(* What getPermissions and getResources are to return, without following   *)
(* their recursion: the roles a role draws on are the role and the parents *)
(* of every configured role it draws on; a role that is not configured     *)
(* gives nothing and its parents are not asked.                            *)
(***************************************************************************)
RECURSIVE DrawsOn(_)
DrawsOn(roles) ==
  LET more == roles \cup UNION {Parents(roleHierarchy, role) :
                                  role \in roles \cap DOMAIN config.roles}
  IN IF more = roles THEN roles ELSE DrawsOn(more)

Configured(roles) == roles \cap DOMAIN config.roles

DirectPermissions(role, resource) ==
  IF resource \in DOMAIN config.roles[role].permissions
  THEN ListSet(config.roles[role].permissions[resource]) ELSE {}

UnionOfPermissions(role, resource) ==
  UNION {DirectPermissions(a, resource) : a \in Configured(DrawsOn({role}))}

UnionOfResources(role) ==
  UNION {DOMAIN config.roles[a].permissions : a \in Configured(DrawsOn({role}))}

\* strict mode throws for a role that is not configured, wherever the
\* recursion meets it
MeetsUnknownRole(role) == strict /\ DrawsOn({role}) # Configured(DrawsOn({role}))

IsTheUnion(r, members, role) ==
  IF MeetsUnknownRole(role) THEN r.threw /\ r.error = "role does not exist"
  ELSE /\ ~r.threw
       /\ DuplicateFree(r.value)
       /\ ListSet(r.value) = members
       /\ role \notin DOMAIN config.roles => r.value = <<>>

\* C37: getPermissions returns, without duplicates, the union of the direct
\* permissions of the role and of what its parents yield, recursively;
\* getResources likewise for resource keys; a role that is not configured
\* yields the empty list in non-strict mode and an Error in strict mode.
C37_GetPermissionsIsTheUnion ==
  \A role \in RoleIds :
     /\ IsTheUnion(getPermissions(role, RES_R, StackLimit),
                   UnionOfPermissions(role, RES_R), role)
     /\ IsTheUnion(getResources(role, StackLimit), UnionOfResources(role), role)

\* getPermissions has returned a permission that only the second parent of
\* the role holds.
C37_InheritedFromSecondParent ==
  /\ last.op = "getPermissions" /\ last.arg = <<AB_UNDER, RES_R>> /\ last.out = "ok"
  /\ roleHierarchy = (AB_UNDER :> <<ROLE_C, AB_COLON>>)
  /\ RoleIds \subseteq DOMAIN config.roles
  /\ PERM_P \in ListSet(getPermissions(AB_UNDER, RES_R, StackLimit).value)
  /\ PERM_P \notin DirectPermissions(AB_UNDER, RES_R)
  /\ PERM_P \notin DirectPermissions(ROLE_C, RES_R)

\* No configured list holds the wildcard.
NoWildcard ==
  \A role \in DOMAIN config.roles :
    \A resource \in DOMAIN config.roles[role].permissions :
      STAR \notin ListSet(config.roles[role].permissions[resource])

\* C38: with strict mode off, can(role, resource, permission) is true exactly
\* when the permission is an element of getPermissions(role, resource), for
\* valid identifiers; stated for what can computes without the cache and for
\* configurations without a wildcard.
C38_CanAgreesWithGetPermissions ==
  (~strict /\ NoWildcard) =>
    \A t \in ValidQueries :
      ReturnedTrue(CanUncached(t)) <=>
        t[3] \in ListSet(getPermissions(t[1], t[2], StackLimit).value)

\* the lists of two different roles, and a list read backwards
TwoRoles == {list \in [1..2 -> RoleIds] : list[1] # list[2]}
Reversed(list) == [i \in 1..Len(list) |-> list[Len(list) + 1 - i]]

\* C39: userCan returns the same boolean for a role list and for the same
\* roles in another order, in strict and in non-strict mode, with and without
\* the cache.
C39_UserCanIgnoresOrder ==
  \A list \in TwoRoles :
    UserCanNow(RolesOf(list)).value = UserCanNow(RolesOf(Reversed(list))).value

\* the permissions a can call may be asked about
Permissions == {PERM_P, STAR}

\* C40: every resource that getResources(role) returns is one on which the
\* role holds some permission: can(role, resource, p) is true for at least
\* one p. Stated for what can computes without the cache.
C40_ListedResourcesAreAccessible ==
  \A role \in RoleIds :
    ~getResources(role, StackLimit).threw =>
      \A resource \in ListSet(getResources(role, StackLimit).value) :
        \E p \in Permissions : ReturnedTrue(CanUncached(<<role, resource, p>>))

====
